---- MODULE Spec2Model ----
(***************************************************************************)
(* Maintenance-plan migration toolkit (scripts/migrate-maintenance-tasks.ts *)
(* and scripts/migrate-task-parts.ts): a state machine of the two scripts   *)
(* running against a source store and a destination store, with the        *)
(* checkpoint file that survives from one process to the next.              *)
(*                                                                         *)
(* One action is one awaited step of the code: a remote call (already       *)
(* wrapped in the retry helper) together with the local code that follows   *)
(* it up to the next await.  The process can be killed between steps.       *)
(***************************************************************************)
EXTENDS Integers, Sequences, FiniteSets, TLC

(***************************************************************************)
(* Bounds of the model.                                                     *)
(***************************************************************************)
\* processes started one after the other on the same stores and checkpoint
MaxRuns == 2
\* remote calls that may fail in one behaviour
MaxFailures == 1
\* times the process may be killed in one behaviour
MaxCrashes == 1
\* source tasks drawn for the generated data sets
MaxSrcTasks == 2
\* source parts drawn for the generated data sets
MaxSrcParts == 1
\* MIGRATION_CONFIG.batchSize, scaled down from 100 so that a model with
\* three staged rows is inserted in more than one batch
batchSize == 2
\* largest ID list handed to the chunked parts fetch on its own
MaxChunkIds == 260
\* attempts and base delays tried for the retry helper on its own
MaxAttempts == 4
MaxDelayUnits == 3
\* staged rows handed to an insert loop on its own, and the batches of it
\* that may fail
MaxStaged == 4
MaxBatchFailures == 2

(***************************************************************************)
(* Program constants.                                                       *)
(***************************************************************************)
\* IDs per filtered multi-get (the literal 100 of the fetch loops)
ChunkSize == 100
\* MIGRATION_CONFIG.retryAttempts
retryAttempts == 3
\* MIGRATION_CONFIG.retryDelayMs
retryDelayMs == 1000
\* MIGRATION_CONFIG.models, cut to two configured names
MIGRATION_CONFIG_models == <<"A", "B">>

(***************************************************************************)
(* Sequences, and JavaScript's Map as a sequence of <<key, value>> pairs in *)
(* insertion order.                                                         *)
(***************************************************************************)
Range(s) == {s[i] : i \in 1..Len(s)}

Includes(s, x) == x \in Range(s)

Filter(s, keep(_)) == SelectSeq(s, keep)

\* a slice that stops one element short
SliceShort(s, i, n) ==
    SubSeq(s, i + 1, IF i + n - 1 < Len(s) THEN i + n - 1 ELSE Len(s))

\* Array.prototype.slice(i, i + n) with i counted from 0
Slice(s, i, n) == SubSeq(s, i + 1, IF i + n < Len(s) THEN i + n ELSE Len(s))

MapHas(m, k) == \E i \in 1..Len(m) : m[i][1] = k

MapGet(m, k) == m[CHOOSE i \in 1..Len(m) : m[i][1] = k][2]

MapSet(m, k, v) ==
    IF MapHas(m, k)
    THEN [i \in 1..Len(m) |-> IF m[i][1] = k THEN <<k, v>> ELSE m[i]]
    ELSE Append(m, <<k, v>>)

MapKeys(m) == [i \in 1..Len(m) |-> m[i][1]]

\* Array.prototype.find: the first element that satisfies the test, as a
\* sequence of zero or one element
Find(s, test(_)) ==
    IF \E i \in 1..Len(s) : test(s[i])
    THEN <<s[CHOOSE i \in 1..Len(s) :
                /\ test(s[i])
                /\ \A j \in 1..(i - 1) : ~test(s[j])]>>
    ELSE <<>>

(***************************************************************************)
(* The remote store's answers.  A response is [data, error]; data is a      *)
(* sequence of rows (for a single-row query: zero or one row).              *)
(***************************************************************************)
Response(rows) == [data |-> rows, error |-> FALSE]

ErrorResponse == [data |-> <<>>, error |-> TRUE]

\* .maybeSingle(): no row gives null data, one row gives the row, more than
\* one row gives null data and an error
maybeSingle(rows) ==
    IF Len(rows) <= 1 THEN Response(rows) ELSE ErrorResponse

\* .eq('name', modelName) on equipment_models
ModelRows(store, modelName) ==
    Filter(store.models, LAMBDA r : r.name = modelName)

\* .eq('model_id', modelId) on maintenance_intervals
IntervalRows(store, modelId) ==
    Filter(store.intervals, LAMBDA r : r.model_id = modelId)

\* .in('interval_id', batch) on maintenance_tasks
TaskRowsIn(store, batch) ==
    Filter(store.tasks, LAMBDA r : Includes(batch, r.interval_id))

\* .in('task_id', batch) on task_parts
PartRowsIn(store, batch) ==
    Filter(store.parts, LAMBDA r : Includes(batch, r.task_id))

\* .eq('interval_id').eq('description').eq('type') on maintenance_tasks
TaskRowsByKey(store, intervalId, description, type) ==
    Filter(store.tasks, LAMBDA r : /\ r.interval_id = intervalId
                                   /\ r.description = description
                                   /\ r.type = type)

\* .limit(n): the first n rows
Limit(rows, n) == IF Len(rows) <= n THEN rows ELSE SubSeq(rows, 1, n)

\* .eq('task_id').eq('name') on task_parts
PartRowsByKey(store, taskId, name) ==
    Filter(store.parts, LAMBDA r : r.task_id = taskId /\ r.name = name)

(***************************************************************************)
(* Pure parts of migrateModel (scripts/migrate-maintenance-tasks.ts).       *)
(***************************************************************************)
ZeroStats ==
    [tasksFound |-> 0, tasksMigrated |-> 0, tasksSkipped |-> 0, errors |-> 0,
     skippedReasons |-> <<>>]

\* the reason is kept and the error is not counted
CountErrorUncounted(st, reason) ==
    [st EXCEPT !.skippedReasons = Append(@, reason)]

\* stats.errors++ ; stats.skippedReasons.push(reason)
CountError(st, reason) ==
    [st EXCEPT !.errors = @ + 1, !.skippedReasons = Append(@, reason)]

\* a skipped task whose reason is kept and whose count is not
CountSkippedUncounted(st, reason) ==
    [st EXCEPT !.skippedReasons = Append(@, reason)]

\* stats.tasksSkipped++ ; stats.skippedReasons.push(reason)
CountSkipped(st, reason) ==
    [st EXCEPT !.tasksSkipped = @ + 1, !.skippedReasons = Append(@, reason)]

\* a match on values that are one apart at most
IntervalMatchesNear(di, sourceInterval) ==
    /\ di.interval_value - sourceInterval.interval_value <= 1
    /\ sourceInterval.interval_value - di.interval_value <= 1

\* di.interval_value === sourceInterval.interval_value
IntervalMatches(di, sourceInterval) ==
    di.interval_value = sourceInterval.interval_value

\* Step 4: the interval map after the first n source intervals
RECURSIVE IntervalMapUpTo(_, _, _)
IntervalMapUpTo(sIntervals, dIntervals, n) ==
    IF n = 0 THEN <<>>
    ELSE LET prev == IntervalMapUpTo(sIntervals, dIntervals, n - 1)
             destInterval ==
                 Find(dIntervals, LAMBDA di : IntervalMatches(di, sIntervals[n]))
         IN  IF destInterval # <<>>
             THEN MapSet(prev, sIntervals[n].id, destInterval[1].id)
             ELSE prev

BuildIntervalMap(sIntervals, dIntervals) ==
    IntervalMapUpTo(sIntervals, dIntervals, Len(sIntervals))

\* Step 4: the source intervals that found no destination interval
UnmatchedIntervals(sIntervals, dIntervals) ==
    Filter(sIntervals,
           LAMBDA si : Find(dIntervals, LAMBDA di : IntervalMatches(di, si)) = <<>>)

\* consecutive slices of ChunkSize IDs: for (i = 0; i < n; i += 100) slice(i, i + 100)
RECURSIVE ChunksFrom(_, _)
ChunksFrom(ids, i) ==
    IF i >= Len(ids) THEN <<>>
    ELSE <<Slice(ids, i, ChunkSize)>> \o ChunksFrom(ids, i + ChunkSize)

\* the number of IDs of each chunk
SizesOf(chunks) == [k \in 1..Len(chunks) |-> Len(chunks[k])]

\* getSourceTasks: the rows of every chunk, one chunk after the other
RECURSIVE FetchTasksFrom(_, _, _)
FetchTasksFrom(store, chunks, k) ==
    IF k > Len(chunks) THEN <<>>
    ELSE TaskRowsIn(store, chunks[k]) \o FetchTasksFrom(store, chunks, k + 1)

\* the row staged for insertion (tasksToInsert.push)
StagedTask(task, destIntervalId) ==
    [sourceTaskId |-> task.id, interval_id |-> destIntervalId,
     description |-> task.description, type |-> task.type]

\* a match on the interval alone
MatchedTaskByInterval(insertedTasks, sourceTask) ==
    Find(insertedTasks, LAMBDA it : it.interval_id = sourceTask.interval_id)

\* insertedTasks.find(it => description, type and interval_id equal)
MatchedTask(insertedTasks, sourceTask) ==
    Find(insertedTasks, LAMBDA it : /\ it.description = sourceTask.description
                                    /\ it.type = sourceTask.type
                                    /\ it.interval_id = sourceTask.interval_id)

\* lines 497-515: the task map after the first j rows of the batch
RECURSIVE MapInsertedUpTo(_, _, _, _)
MapInsertedUpTo(tmap, batch, insertedTasks, j) ==
    IF j = 0 THEN tmap
    ELSE LET prev == MapInsertedUpTo(tmap, batch, insertedTasks, j - 1)
             matchedTask == MatchedTask(insertedTasks, batch[j])
         IN  IF j <= Len(insertedTasks) /\ matchedTask # <<>>
             THEN MapSet(prev, batch[j].sourceTaskId, matchedTask[1].id)
             ELSE prev

\* a task map that pairs the batch and the answer by position
MapInsertedByPosition(tmap, batch, insertedTasks) ==
    tmap \o [j \in 1..Len(batch) |-> <<batch[j].sourceTaskId, insertedTasks[j].id>>]


MapInserted(tmap, batch, insertedTasks) ==
    MapInsertedUpTo(tmap, batch, insertedTasks, Len(batch))

\* lines 537-551: sourceParts.map(...).filter(p => p !== null)
RECURSIVE RewritePartsFrom(_, _, _)
RewritePartsFrom(parts, tmap, k) ==
    IF k > Len(parts) THEN <<>>
    ELSE (IF MapHas(tmap, parts[k].task_id)
          THEN <<[task_id |-> MapGet(tmap, parts[k].task_id),
                  name |-> parts[k].name, src |-> parts[k].id]>>
          ELSE <<>>) \o RewritePartsFrom(parts, tmap, k + 1)

RewriteParts(parts, tmap) == RewritePartsFrom(parts, tmap, 1)

(***************************************************************************)
(* The destination's insert: every row of the batch gets a fresh id and is  *)
(* stored, in one atomic call.  src is a ghost field: the source row a      *)
(* destination row was copied from (0 for rows that were there before).     *)
(***************************************************************************)
NewTaskRows(store, batch) ==
    [j \in 1..Len(batch) |->
        [id |-> store.nextId + j - 1, interval_id |-> batch[j].interval_id,
         description |-> batch[j].description, type |-> batch[j].type,
         src |-> batch[j].sourceTaskId]]

NewPartRows(store, batch) ==
    [j \in 1..Len(batch) |->
        [id |-> store.nextId + j - 1, task_id |-> batch[j].task_id,
         name |-> batch[j].name, src |-> batch[j].src]]

InsertTasksInto(store, batch) ==
    [store EXCEPT !.tasks = @ \o NewTaskRows(store, batch),
                  !.nextId = @ + Len(batch)]

InsertPartsInto(store, batch) ==
    [store EXCEPT !.parts = @ \o NewPartRows(store, batch),
                  !.nextId = @ + Len(batch)]

\* the rows of an insert's answer, in an order the backend chooses
Reordered(rows, perm) == [j \in 1..Len(rows) |-> rows[perm[j]]]

(***************************************************************************)
(* State.                                                                   *)
(***************************************************************************)
VARIABLES
    src,              \* the source store: models, intervals, tasks, parts
    dest,             \* the destination store, and the next id it hands out
    file,             \* scripts/out/migration-progress.json: state and content
    pc,               \* where the running process is; "exited" when none runs
    flags,            \* script, isDryRun, shouldResume, modelFilter
    modelsToProcess,  \* main's work list
    mi,               \* position of the for-of loop of main in the work list
    progress,         \* main's MigrationProgress object
    fr,               \* the locals of migrateModel / migrateTaskPartsForModel
    budget,           \* what the environment may still do: failures, kills, runs
    g,                \* ghost record: what the current run has done so far
    rt                \* one call of retryWithBackoff on its own

vars == <<src, dest, file, pc, flags, modelsToProcess, mi, progress, fr, budget, g, rt>>

\* --models is absent
NoFilter == <<>>

\* the work list of main before --resume is applied
\* (modelFilter || MIGRATION_CONFIG.models)
WorkList(modelFilter) ==
    IF modelFilter # NoFilter THEN modelFilter ELSE MIGRATION_CONFIG_models

\* every name a run may be asked to process
AllNames == Range(MIGRATION_CONFIG_models) \cup {"X"}

\* a progress object that starts from the checkpoint found on disk
FreshProgressFromFile(n) ==
    IF file.state = "complete" THEN file.content[1]
    ELSE [completedModels |-> <<>>,
          currentModel |-> <<>>,
          stats |-> [totalModels |-> n, totalTasksFound |-> 0,
                     totalTasksMigrated |-> 0, totalTasksSkipped |-> 0,
                     totalErrors |-> 0],
          modelStats |-> <<>>,
          errors |-> <<>>]

\* a progress object that starts with an error already counted
FreshProgressDirty(n) ==
    [completedModels |-> <<>>,
     currentModel |-> <<>>,
     stats |-> [totalModels |-> n, totalTasksFound |-> 0,
                totalTasksMigrated |-> 0, totalTasksSkipped |-> 0,
                totalErrors |-> 1],
     modelStats |-> <<>>,
     errors |-> <<>>]

\* the progress object main creates when it has none (lines 683-697)
FreshProgress(n) ==
    [completedModels |-> <<>>,
     currentModel |-> <<>>,
     stats |-> [totalModels |-> n, totalTasksFound |-> 0,
                totalTasksMigrated |-> 0, totalTasksSkipped |-> 0,
                totalErrors |-> 0],
     modelStats |-> <<>>,
     errors |-> <<>>]

\* the checkpoint file: absent; opened for writing and not yet written in full
\* (fs.writeFile truncates the file it opens); or holding a whole progress object
NoFile == [state |-> "absent", content |-> <<>>]

Truncated == [state |-> "truncated", content |-> <<>>]

\* loadProgress: the parsed file, or null (here <<>>) when readFile or
\* JSON.parse throws
loadProgress(f) == IF f.state = "complete" THEN f.content ELSE <<>>

\* a resume that keeps every model in the work list
NotCompletedAll(models, loadedProgress) == models

\* modelsToProcess.filter(m => !progress.completedModels.includes(m))
NotCompleted(models, loadedProgress) ==
    Filter(models, LAMBDA m : ~Includes(loadedProgress.completedModels, m))

\* the locals of one call of migrateModel, as they are at its first line
FreshFrame ==
    [stats |-> ZeroStats,
     destModel |-> <<>>, sourceModel |-> <<>>,
     sourceIntervals |-> <<>>, destIntervals |-> <<>>, intervalMap |-> <<>>,
     sourceTasks |-> <<>>, ti |-> 1, tasksToInsert |-> <<>>, taskIdMap |-> <<>>,
     bi |-> 0, taskIds |-> <<>>, allParts |-> <<>>, ci |-> 0,
     partsToInsert |-> <<>>, pbi |-> 0,
     pstats |-> [partsFound |-> 0, partsMigrated |-> 0, partsSkipped |-> 0,
                 errors |-> 0],
     partsToInsertFiltered |-> <<>>, pi |-> 1]

ZeroIo == [srcReads |-> 0, destReads |-> 0, destWrites |-> 0]

\* what a run has done so far: nothing
FreshGhost(d) ==
    [loaded |-> <<>>,                      \* the checkpoint main loaded
     invoked |-> <<>>,                     \* the names migrateModel was called with
     io |-> [n \in AllNames |-> ZeroIo],   \* remote calls issued, per model
     destAtLaunch |-> d,                   \* the destination when the run began
     fileAtLaunch |-> NoFile,              \* the checkpoint file when the run began
     chunkCalls |-> <<>>,                  \* sizes of the multi-gets of the last parts fetch
     returned |-> <<>>,                    \* what migrateModel returned, per call
     report |-> <<>>,                      \* the rows generateReport wrote
     failed |-> <<>>,                      \* the remote calls that failed
     multiGets |-> <<>>,                   \* number of IDs of every .in() call issued
     history |-> <<>>]                     \* one record per process started

\* a loop that goes through the work list from its end
modelNameFromEnd == modelsToProcess[Len(modelsToProcess) + 1 - mi]


modelName == modelsToProcess[mi]

\* retryWithBackoff's locals; plan[k] says whether the k-th invocation of fn
\* returns, log holds the invocations and the waits in the order they happen
RtIdle ==
    [pc |-> "idle", attempts |-> 0, delayMs |-> 0, attempt |-> 0,
     plan |-> <<>>, log |-> <<>>, lastError |-> <<>>, result |-> <<>>, thrown |-> <<>>]

\* a delay that has doubled once too often
BackoffDelayDoubled(delayMs, attempt) == delayMs * 2 ^ attempt

\* delayMs * Math.pow(2, attempt - 1)
BackoffDelay(delayMs, attempt) == delayMs * 2 ^ (attempt - 1)

\* the for loop is entered, or left with the throw of line 129
RetryEnter(r) ==
    IF r.attempt <= r.attempts THEN [r EXCEPT !.pc = "call"]
    ELSE [r EXCEPT !.pc = "thrown",
                   !.thrown = IF r.lastError # <<>> THEN r.lastError
                              ELSE <<"Retry failed">>]

\* a catch that waits after the last attempt too
RetryCaughtWaits(r) ==
    [r EXCEPT !.pc = "wait", !.lastError = <<"error", r.attempt>>]

\* lines 117-126 after fn has thrown: the error is kept, and there is a wait
\* unless this was the last attempt
RetryCaught(r) ==
    IF r.attempt < r.attempts
    THEN [r EXCEPT !.pc = "wait", !.lastError = <<"error", r.attempt>>]
    ELSE RetryEnter([r EXCEPT !.lastError = <<"error", r.attempt>>,
                              !.attempt = @ + 1])

\* line 118: fn is invoked; it returns when plan says so and throws otherwise
AfterCall(r) ==
    LET called == [r EXCEPT !.log = Append(@, <<"call", r.attempt>>)]
    IN  IF r.plan[r.attempt]
        THEN [called EXCEPT !.pc = "returned", !.result = <<"value", r.attempt>>]
        ELSE RetryCaught(called)

\* lines 122-124: the wait, then the next round of the loop
AfterWait(r) ==
    RetryEnter([r EXCEPT
                   !.log = Append(@, <<"wait", BackoffDelay(r.delayMs, r.attempt)>>),
                   !.attempt = @ + 1])

\* the whole call of retryWithBackoff
RECURSIVE RetryLoop(_)
RetryLoop(r) ==
    IF r.pc = "call" THEN RetryLoop(AfterCall(r))
    ELSE IF r.pc = "wait" THEN RetryLoop(AfterWait(r))
    ELSE r

\* what fn does at each invocation for an outcome of the remote call: the
\* client throws every time ("throw"), or it resolves at once, with the rows
\* ("ok") or with a response whose error field is set ("error")
FnPlan(o) == [k \in 1..retryAttempts |-> o # "throw"]

\* the number of times retryWithBackoff, with its default arguments, invokes fn
Invocations(o) ==
    LET r == RetryLoop(RetryEnter([RtIdle EXCEPT !.attempts = retryAttempts,
                                                 !.delayMs = retryDelayMs,
                                                 !.attempt = 1,
                                                 !.plan = FnPlan(o)]))
    IN  Cardinality({i \in 1..Len(r.log) : r.log[i][1] = "call"})

\* the outcomes the environment may give a remote call (behind the retry
\* helper): the store's answer; an exception on every attempt; a response whose
\* error field is set
Outcomes == IF budget.failuresLeft > 0 THEN {"ok", "throw", "error"} ELSE {"ok"}

Spend(o) ==
    IF o = "ok" THEN budget ELSE [budget EXCEPT !.failuresLeft = @ - 1]

\* one more remote call of kind k issued for the model in hand, with outcome o;
\* a call that failed is kept with the number of times fn was invoked for it
NoteFailure(gg, k, o, n) ==
    [gg EXCEPT !.failed = IF o = "ok" THEN @
                          ELSE Append(@, [model |-> modelName, step |-> pc, kind |-> k,
                                          how |-> o, invocations |-> n])]

Issued(k, o) ==
    NoteFailure([g EXCEPT !.io[modelName][k] = @ + 1], k, o, Invocations(o))


(***************************************************************************)
(* Process start and end.                                                   *)
(***************************************************************************)
Scripts == {"tasks", "parts"}

\* the values of --models tried
Filters == {NoFilter, <<"B">>, <<"X">>}

\* writes whatever the flags say
WritesAlways(fl) == TRUE

\* isDryRun: no write is issued unless this holds
WritesEnabled(fl) == ~fl.isDryRun

\* the connection settings of the environment: which of
\* SOURCE_SUPABASE_SERVICE_ROLE_KEY, NEXT_PUBLIC_SUPABASE_URL and
\* SUPABASE_SERVICE_ROLE_KEY are set
FullEnv == [sourceKey |-> TRUE, destUrl |-> TRUE, destKey |-> TRUE]

Envs ==
    {FullEnv, [FullEnv EXCEPT !.sourceKey = FALSE],
     [FullEnv EXCEPT !.destUrl = FALSE], [FullEnv EXCEPT !.destKey = FALSE]}

\* a validation of the source key only
EnvValidSourceOnly(env) == env.sourceKey

\* lines 35 and 40: neither if of the validation is taken
EnvValid(env) ==
    /\ ~(~env.sourceKey)
    /\ ~(~env.destUrl \/ ~env.destKey)

\* exitCode: <<>> until the process has ended by itself
RunRecord(fl) ==
    [script |-> fl.script, isDryRun |-> fl.isDryRun,
     shouldResume |-> fl.shouldResume, modelFilter |-> fl.modelFilter,
     env |-> fl.env,
     failuresBefore |-> budget.failuresLeft, exit |-> "running",
     exitCode |-> <<>>, current |-> <<>>, loaded |-> <<>>]

\* a process is started: the CLI arguments are parsed (lines 24-32)
Launch ==
    /\ pc = "exited"
    /\ budget.runsLeft > 0
    /\ \E sc \in Scripts, dry \in BOOLEAN, res \in BOOLEAN, mf \in Filters,
          env \in Envs :
          /\ sc = "parts" => ~res
          /\ flags' = [script |-> sc, isDryRun |-> dry, shouldResume |-> res,
                       modelFilter |-> mf, env |-> env]
          /\ g' = [FreshGhost(dest) EXCEPT
                      !.fileAtLaunch = file,
                      !.history = Append(g.history, RunRecord(flags'))]
    /\ pc' = "env"
    /\ budget' = [budget EXCEPT !.runsLeft = @ - 1]
    /\ modelsToProcess' = <<>>
    /\ mi' = 1
    /\ progress' = FreshProgress(0)
    /\ fr' = FreshFrame
    /\ UNCHANGED <<src, dest, file, rt>>

\* the process is gone: nothing of its memory is left
Exited(how) ==
    /\ pc' = "exited"
    /\ modelsToProcess' = <<>>
    /\ mi' = 1
    /\ progress' = FreshProgress(0)
    /\ fr' = FreshFrame

\* lines 34-43: the environment is validated before main is called
ValidateEnv ==
    /\ pc = "env"
    /\ IF EnvValid(flags.env)
       THEN /\ pc' = "main"
            /\ UNCHANGED <<modelsToProcess, mi, progress, fr, g>>
       ELSE /\ g' = [g EXCEPT !.history[Len(g.history)].exit = "config_error",
                              !.history[Len(g.history)].exitCode = <<1>>]
            /\ Exited("config_error")
    /\ UNCHANGED <<src, dest, file, flags, budget, rt>>

InModel == pc \notin {"exited", "env", "main", "loop", "report", "saving"}

\* the process is killed between two steps
Crash ==
    /\ pc # "exited"
    /\ budget.crashesLeft > 0
    /\ budget' = [budget EXCEPT !.crashesLeft = @ - 1]
    /\ g' = [g EXCEPT !.history[Len(g.history)].exit = "killed",
                      !.history[Len(g.history)].current =
                          IF InModel THEN <<modelName>> ELSE <<>>]
    /\ Exited("killed")
    /\ UNCHANGED <<src, dest, file, flags, rt>>

(***************************************************************************)
(* main of migrate-maintenance-tasks.ts.                                    *)
(***************************************************************************)
\* lines 662-697: the work list, the checkpoint, the progress object
MainStart ==
    /\ pc = "main"
    /\ flags.script = "tasks"
    /\ LET loadedProgress == IF flags.shouldResume THEN loadProgress(file) ELSE <<>>
           todo == IF loadedProgress # <<>>
                   THEN NotCompleted(WorkList(flags.modelFilter), loadedProgress[1])
                   ELSE WorkList(flags.modelFilter)
       IN  /\ modelsToProcess' = todo
           /\ progress' = IF loadedProgress # <<>> THEN loadedProgress[1]
                          ELSE FreshProgress(Len(todo))
           /\ g' = [g EXCEPT !.loaded = loadedProgress,
                             !.history[Len(g.history)].loaded = loadedProgress]
    /\ mi' = 1
    /\ pc' = "loop"
    /\ UNCHANGED <<src, dest, file, flags, fr, budget, rt>>

\* lines 700-704: the next model of the work list enters migrateModel
NextModel ==
    /\ pc = "loop"
    /\ flags.script = "tasks"
    /\ mi <= Len(modelsToProcess)
    /\ progress' = [progress EXCEPT !.currentModel = <<modelName>>]
    /\ fr' = FreshFrame
    /\ g' = [g EXCEPT !.invoked = Append(@, modelName)]
    /\ pc' = "validate"
    /\ UNCHANGED <<src, dest, file, flags, modelsToProcess, mi, budget, rt>>

\* a main loop that lists a model as completed only when it ended without errors
RecordedCleanOnly(p, name, st) ==
    [p EXCEPT
        !.modelStats = MapSet(@, name, st),
        !.stats.totalTasksFound = @ + st.tasksFound,
        !.stats.totalTasksMigrated = @ + st.tasksMigrated,
        !.stats.totalTasksSkipped = @ + st.tasksSkipped,
        !.stats.totalErrors = @ + st.errors,
        !.errors = IF st.errors > 0
                   THEN Append(@, [model |-> name, error |-> st.skippedReasons])
                   ELSE @,
        !.completedModels = IF st.errors > 0 THEN @ ELSE Append(@, name),
        !.currentModel = <<>>]

\* a main loop that leaves the tasks found out of the cumulative counter
RecordedFoundUncounted(p, name, st) ==
    [p EXCEPT
        !.modelStats = MapSet(@, name, st),
        !.stats.totalTasksMigrated = @ + st.tasksMigrated,
        !.stats.totalTasksSkipped = @ + st.tasksSkipped,
        !.stats.totalErrors = @ + st.errors,
        !.errors = IF st.errors > 0
                   THEN Append(@, [model |-> name, error |-> st.skippedReasons])
                   ELSE @,
        !.completedModels = Append(@, name),
        !.currentModel = <<>>]

\* lines 706-725: the statistics of the model go into the progress object
Recorded(p, name, st) ==
    [p EXCEPT
        !.modelStats = MapSet(@, name, st),
        !.stats.totalTasksFound = @ + st.tasksFound,
        !.stats.totalTasksMigrated = @ + st.tasksMigrated,
        !.stats.totalTasksSkipped = @ + st.tasksSkipped,
        !.stats.totalErrors = @ + st.errors,
        !.errors = IF st.errors > 0
                   THEN Append(@, [model |-> name, error |-> st.skippedReasons])
                   ELSE @,
        !.completedModels = Append(@, name),
        !.currentModel = <<>>]

\* saveProgress: the file holds the progress object
saveProgress(p) == [state |-> "complete", content |-> <<p>>]

\* migrateModel has returned: lines 706-723, up to the moment fs.writeFile has
\* opened the checkpoint file
SaveAfterModel ==
    /\ pc = "ret"
    /\ progress' = Recorded(progress, modelName, fr.stats)
    /\ file' = Truncated
    /\ g' = [g EXCEPT !.returned = Append(@, [model |-> modelName, stats |-> fr.stats,
                                               staged |-> Len(fr.tasksToInsert)])]
    /\ fr' = FreshFrame
    /\ pc' = "saving"
    /\ UNCHANGED <<src, dest, flags, modelsToProcess, mi, budget, rt>>

\* line 87: fs.writeFile has written the whole progress object
SaveProgressDone ==
    /\ pc = "saving"
    /\ file' = saveProgress(progress)
    /\ mi' = mi + 1
    /\ pc' = "loop"
    /\ UNCHANGED <<src, dest, flags, modelsToProcess, progress, fr, budget, g, rt>>

\* a row whose status looks at currentModel before completedModels
ReportRowCurrentFirst(p, name) ==
    LET st == IF MapHas(p.modelStats, name) THEN MapGet(p.modelStats, name)
              ELSE ZeroStats
    IN  [model |-> name, tasksFound |-> st.tasksFound,
         tasksMigrated |-> st.tasksMigrated, tasksSkipped |-> st.tasksSkipped,
         errors |-> st.errors,
         status |-> IF p.currentModel = <<name>> THEN "In Progress"
                    ELSE IF Includes(p.completedModels, name) THEN "Completed"
                    ELSE "Pending"]

\* lines 609-635: one row of the report
ReportRow(p, name) ==
    LET st == IF MapHas(p.modelStats, name) THEN MapGet(p.modelStats, name)
              ELSE ZeroStats
    IN  [model |-> name, tasksFound |-> st.tasksFound,
         tasksMigrated |-> st.tasksMigrated, tasksSkipped |-> st.tasksSkipped,
         errors |-> st.errors,
         status |-> IF Includes(p.completedModels, name) THEN "Completed"
                    ELSE IF p.currentModel = <<name>> THEN "In Progress"
                    ELSE "Pending"]

generateReport(p) ==
    [i \in 1..Len(MIGRATION_CONFIG_models) |-> ReportRow(p, MIGRATION_CONFIG_models[i])]

\* line 740: main awaits generateReport, which reads the progress object and
\* writes the rows of the report
Report ==
    /\ pc = "loop"
    /\ flags.script = "tasks"
    /\ mi > Len(modelsToProcess)
    /\ g' = [g EXCEPT !.report = generateReport(progress)]
    /\ pc' = "report"
    /\ UNCHANGED <<src, dest, file, flags, modelsToProcess, mi, progress, fr,
                   budget, rt>>

\* a main that ends with exit code 1 when a model had errors
MainReturnFailing ==
    /\ pc = "report"
    /\ g' = [g EXCEPT !.history[Len(g.history)].exit = "ok",
                      !.history[Len(g.history)].exitCode =
                          IF progress.stats.totalErrors > 0 THEN <<1>> ELSE <<0>>]
    /\ Exited("ok")
    /\ UNCHANGED <<src, dest, file, flags, budget, rt>>

\* lines 741-742: main returns and the process ends with exit code 0
MainReturn ==
    /\ pc = "report"
    /\ g' = [g EXCEPT !.history[Len(g.history)].exit = "ok",
                      !.history[Len(g.history)].exitCode = <<0>>]
    /\ Exited("ok")
    /\ UNCHANGED <<src, dest, file, flags, budget, rt>>

(***************************************************************************)
(* migrateModel, one awaited step per action.                               *)
(***************************************************************************)
\* the catch of lines 587-592: the model ends with one more error
Caught(f) == [f EXCEPT !.stats = CountError(@, "model_error")]

\* Step 1 (lines 327-335): validateModelExists on the destination
ValidateModel ==
    /\ pc = "validate"
    /\ \E o \in Outcomes :
          LET resp == IF o = "error" THEN ErrorResponse
                      ELSE maybeSingle(ModelRows(dest, modelName))
          IN  /\ budget' = Spend(o)
              /\ g' = Issued("destReads", o)
              /\ IF o = "throw" \/ resp.error
                 THEN fr' = Caught(fr) /\ pc' = "ret"
                 ELSE IF resp.data = <<>>
                 THEN /\ fr' = [fr EXCEPT !.stats = CountError(@, "dest_missing")]
                      /\ pc' = "ret"
                 ELSE /\ fr' = [fr EXCEPT !.destModel = resp.data]
                      /\ pc' = "srcModel"
    /\ UNCHANGED <<src, dest, file, flags, modelsToProcess, mi, progress, rt>>

\* Step 2 (lines 339-354): the model in the source
GetSourceModel ==
    /\ pc = "srcModel"
    /\ \E o \in Outcomes :
          LET resp == IF o = "error" THEN ErrorResponse
                      ELSE maybeSingle(ModelRows(src, modelName))
          IN  /\ budget' = Spend(o)
              /\ g' = Issued("srcReads", o)
              /\ IF o = "throw"
                 THEN fr' = Caught(fr) /\ pc' = "ret"
                 ELSE IF resp.error \/ resp.data = <<>>
                 THEN /\ fr' = [fr EXCEPT !.stats = CountError(@, "src_missing")]
                      /\ pc' = "ret"
                 ELSE /\ fr' = [fr EXCEPT !.sourceModel = resp.data]
                      /\ pc' = "srcIntervals"
    /\ UNCHANGED <<src, dest, file, flags, modelsToProcess, mi, progress, rt>>

\* Step 3 (line 359): getSourceIntervals
GetSourceIntervals ==
    /\ pc = "srcIntervals"
    /\ \E o \in Outcomes :
          /\ budget' = Spend(o)
          /\ g' = Issued("srcReads", o)
          /\ IF o # "ok"
             THEN fr' = Caught(fr) /\ pc' = "ret"
             ELSE /\ fr' = [fr EXCEPT !.sourceIntervals =
                                          IntervalRows(src, fr.sourceModel[1].id)]
                  /\ pc' = "destIntervals"
    /\ UNCHANGED <<src, dest, file, flags, modelsToProcess, mi, progress, rt>>

\* unmatched intervals counted as an error of the model
UnmatchedCountedAsError(st, unmatched) ==
    IF Len(unmatched) > 0 THEN CountError(st, "unmatched_intervals") ELSE st

\* lines 387-391: one warning for the unmatched intervals, kept among the
\* skip reasons; no counter is touched
UnmatchedWarning(st, unmatched) ==
    IF Len(unmatched) > 0
    THEN [st EXCEPT !.skippedReasons = Append(@, "unmatched_intervals")]
    ELSE st

\* Steps 3 and 4 (lines 360-391): getDestinationIntervals, then the interval map
GetDestinationIntervals ==
    /\ pc = "destIntervals"
    /\ \E o \in Outcomes :
          /\ budget' = Spend(o)
          /\ g' = Issued("destReads", o)
          /\ IF o # "ok"
             THEN fr' = Caught(fr) /\ pc' = "ret"
             ELSE LET dIntervals == IntervalRows(dest, fr.destModel[1].id)
                      unmatched == UnmatchedIntervals(fr.sourceIntervals, dIntervals)
                  IN  /\ fr' = [fr EXCEPT
                                   !.destIntervals = dIntervals,
                                   !.intervalMap =
                                       BuildIntervalMap(fr.sourceIntervals, dIntervals),
                                   !.stats = UnmatchedWarning(@, unmatched)]
                      /\ pc' = "srcTasks"
    /\ UNCHANGED <<src, dest, file, flags, modelsToProcess, mi, progress, rt>>

\* a Step 5 that asks for the tasks of every source interval of the model
GetSourceTasksOfModel ==
    /\ pc = "srcTasks"
    /\ LET sourceIntervalIds == [i \in 1..Len(fr.sourceIntervals) |->
                                    fr.sourceIntervals[i].id]
           chunks == ChunksFrom(sourceIntervalIds, 0)
       IN  \E o \in IF Len(chunks) = 0 THEN {"ok"} ELSE Outcomes :
              /\ budget' = Spend(o)
              /\ g' = IF Len(chunks) = 0 THEN g
                      ELSE NoteFailure(
                               [g EXCEPT !.io[modelName].srcReads = @ + Len(chunks),
                                         !.multiGets = @ \o SizesOf(chunks)],
                               "srcReads", o, Invocations(o))
              /\ IF o # "ok"
                 THEN fr' = Caught(fr) /\ pc' = "ret"
                 ELSE LET tasks == FetchTasksFrom(src, chunks, 1)
                      IN  /\ fr' = [fr EXCEPT !.sourceTasks = tasks,
                                              !.stats.tasksFound = Len(tasks),
                                              !.ti = 1]
                          /\ pc' = IF Len(tasks) = 0 THEN "ret" ELSE "dupCheck"
    /\ UNCHANGED <<src, dest, file, flags, modelsToProcess, mi, progress, rt>>

\* Step 5 (lines 393-403): getSourceTasks over the matched source intervals
GetSourceTasks ==
    /\ pc = "srcTasks"
    /\ LET sourceIntervalIds == MapKeys(fr.intervalMap)
           chunks == ChunksFrom(sourceIntervalIds, 0)
       IN  \E o \in IF Len(chunks) = 0 THEN {"ok"} ELSE Outcomes :
              /\ budget' = Spend(o)
              /\ g' = IF Len(chunks) = 0 THEN g
                      ELSE NoteFailure(
                               [g EXCEPT !.io[modelName].srcReads = @ + Len(chunks),
                                         !.multiGets = @ \o SizesOf(chunks)],
                               "srcReads", o, Invocations(o))
              /\ IF o # "ok"
                 THEN fr' = Caught(fr) /\ pc' = "ret"
                 ELSE LET tasks == FetchTasksFrom(src, chunks, 1)
                      IN  /\ fr' = [fr EXCEPT !.sourceTasks = tasks,
                                              !.stats.tasksFound = Len(tasks),
                                              !.ti = 1]
                          /\ pc' = IF Len(tasks) = 0 THEN "ret" ELSE "dupCheck"
    /\ UNCHANGED <<src, dest, file, flags, modelsToProcess, mi, progress, rt>>

\* a duplicate that is skipped and left out of the task map
DuplicateFoundUnmapped(f, task, existing) ==
    [f EXCEPT !.stats = CountSkipped(@, "duplicate_task"),
              !.ti = @ + 1]

\* lines 441-448: the task is in the destination already; it is mapped to the
\* existing row, counted as skipped, and the loop continues
DuplicateFound(f, task, existing) ==
    [f EXCEPT !.taskIdMap = MapSet(@, task.id, existing.id),
              !.stats = CountSkipped(@, "duplicate_task"),
              !.ti = @ + 1]

\* Step 6 (lines 418-465): one source task of the for loop
DupCheck ==
    /\ pc = "dupCheck"
    /\ LET task == fr.sourceTasks[fr.ti]
       IN  IF ~MapHas(fr.intervalMap, task.interval_id)
           THEN /\ fr' = [fr EXCEPT !.stats = CountSkipped(@, "interval_not_matched"),
                                    !.ti = @ + 1]
                /\ UNCHANGED <<budget, g>>
           ELSE \E o \in Outcomes :
                  LET destIntervalId == MapGet(fr.intervalMap, task.interval_id)
                      existingTask ==
                          IF o = "error" THEN ErrorResponse
                          ELSE maybeSingle(TaskRowsByKey(dest, destIntervalId,
                                                         task.description, task.type))
                  IN  /\ budget' = Spend(o)
                      /\ g' = Issued("destReads", o)
                      /\ fr' = IF o = "throw"
                               THEN [fr EXCEPT
                                        !.stats = CountError(@, "duplicate_check_failed"),
                                        !.ti = @ + 1]
                               ELSE IF existingTask.data # <<>>
                               THEN DuplicateFound(fr, task, existingTask.data[1])
                               ELSE [fr EXCEPT
                                        !.tasksToInsert =
                                            Append(@, StagedTask(task, destIntervalId)),
                                        !.ti = @ + 1]
    /\ pc' = IF fr.ti = Len(fr.sourceTasks) THEN "insertTasks" ELSE "dupCheck"
    /\ UNCHANGED <<src, dest, file, flags, modelsToProcess, mi, progress, rt>>

\* a failed batch that ends the insert loop
BatchFailedEndsLoop(f) ==
    [f EXCEPT !.stats = CountError(@, "batch_insert_failed"),
              !.bi = Len(f.tasksToInsert)]

\* lines 519-524: the catch inside the loop; the batch is counted as one error
\* and the loop goes on with the next batch
BatchFailed(f) ==
    [f EXCEPT !.stats = CountError(@, "batch_insert_failed"),
              !.bi = @ + batchSize]

\* Step 7 (lines 469-526): the dry-run count, or one batch of the insert loop
InsertTasks ==
    /\ pc = "insertTasks"
    /\ IF ~WritesEnabled(flags)
       THEN /\ fr' = [fr EXCEPT !.stats.tasksMigrated = Len(fr.tasksToInsert)]
            /\ pc' = "partsStart"
            /\ UNCHANGED <<dest, budget, g>>
       ELSE IF fr.bi >= Len(fr.tasksToInsert)
       THEN /\ pc' = "partsStart"
            /\ UNCHANGED <<dest, budget, g, fr>>
       ELSE LET batch == Slice(fr.tasksToInsert, fr.bi, batchSize)
            IN  \E o \in Outcomes :
                \E perm \in IF o = "ok" THEN Permutations(1..Len(batch))
                            ELSE {[j \in 1..Len(batch) |-> j]} :
                   /\ budget' = Spend(o)
                   /\ g' = Issued("destWrites", o)
                   /\ dest' = IF o = "ok" THEN InsertTasksInto(dest, batch) ELSE dest
                   /\ fr' = IF o = "ok"
                            THEN [fr EXCEPT
                                     !.taskIdMap =
                                         MapInserted(@, batch,
                                             Reordered(NewTaskRows(dest, batch), perm)),
                                     !.stats.tasksMigrated = @ + Len(batch),
                                     !.bi = @ + batchSize]
                            ELSE BatchFailed(fr)
                   /\ pc' = "insertTasks"
    /\ UNCHANGED <<src, file, flags, modelsToProcess, mi, progress, rt>>

\* Step 8 (lines 528-532): the source task IDs that have a destination task
BeginParts ==
    /\ pc = "partsStart"
    /\ LET sourceTaskIds == MapKeys(fr.taskIdMap)
       IN  IF Len(sourceTaskIds) > 0
           THEN /\ fr' = [fr EXCEPT !.taskIds = sourceTaskIds, !.ci = 0,
                                    !.allParts = <<>>]
                /\ g' = [g EXCEPT !.chunkCalls = <<>>]
                /\ pc' = "srcParts"
           ELSE /\ pc' = "ret"
                /\ UNCHANGED <<fr, g>>
    /\ UNCHANGED <<src, dest, file, flags, modelsToProcess, mi, progress, budget, rt>>

\* getSourceTaskParts (lines 238-281): one multi-get of the for loop, or the
\* return of allParts once the loop is over
GetSourceTaskParts ==
    /\ pc = "srcParts"
    /\ IF fr.ci < Len(fr.taskIds)
       THEN LET batch == Slice(fr.taskIds, fr.ci, ChunkSize)
            IN  \E o \in Outcomes :
                   /\ budget' = Spend(o)
                   /\ g' = [Issued("srcReads", o) EXCEPT
                               !.chunkCalls = Append(@, batch),
                               !.multiGets = Append(@, Len(batch))]
                   /\ IF o # "ok"
                      THEN fr' = Caught(fr) /\ pc' = "ret"
                      ELSE /\ fr' = [fr EXCEPT
                                        !.allParts = @ \o PartRowsIn(src, batch),
                                        !.ci = @ + ChunkSize]
                           /\ pc' = "srcParts"
       ELSE /\ pc' = "partsFetched"
            /\ UNCHANGED <<fr, budget, g>>
    /\ UNCHANGED <<src, dest, file, flags, modelsToProcess, mi, progress, rt>>

\* lines 534-556: the parts rewritten to their destination task
BuildParts ==
    /\ pc = "partsFetched"
    /\ LET toInsert == IF Len(fr.allParts) > 0
                       THEN RewriteParts(fr.allParts, fr.taskIdMap) ELSE <<>>
       IN  /\ fr' = [fr EXCEPT !.partsToInsert = toInsert, !.pbi = 0]
           /\ pc' = IF Len(toInsert) > 0 /\ WritesEnabled(flags)
                    THEN "insertParts" ELSE "ret"
    /\ UNCHANGED <<src, dest, file, flags, modelsToProcess, mi, progress, budget,
                   g, rt>>

\* lines 557-577: one batch of the parts insert loop; a failed batch ends it
InsertParts ==
    /\ pc = "insertParts"
    /\ LET batch == Slice(fr.partsToInsert, fr.pbi, batchSize)
       IN  \E o \in Outcomes :
              /\ budget' = Spend(o)
              /\ g' = Issued("destWrites", o)
              /\ IF o # "ok"
                 THEN /\ fr' = [fr EXCEPT !.stats = CountError(@, "parts_insert_failed")]
                      /\ pc' = "ret"
                      /\ dest' = dest
                 ELSE /\ dest' = InsertPartsInto(dest, batch)
                      /\ fr' = [fr EXCEPT !.pbi = @ + batchSize]
                      /\ pc' = IF fr.pbi + batchSize < Len(fr.partsToInsert)
                               THEN "insertParts" ELSE "ret"
    /\ UNCHANGED <<src, file, flags, modelsToProcess, mi, progress, rt>>

(***************************************************************************)
(* scripts/migrate-task-parts.ts.                                           *)
(***************************************************************************)
ZeroTotals ==
    [totalPartsFound |-> 0, totalPartsMigrated |-> 0, totalPartsSkipped |-> 0,
     totalErrors |-> 0]

\* main, lines 351-360
PMainStart ==
    /\ pc = "main"
    /\ flags.script = "parts"
    /\ modelsToProcess' = WorkList(flags.modelFilter)
    /\ progress' = ZeroTotals
    /\ mi' = 1
    /\ pc' = "loop"
    /\ UNCHANGED <<src, dest, file, flags, fr, budget, g, rt>>

\* main, lines 362-363: the next model enters migrateTaskPartsForModel
PNextModel ==
    /\ pc = "loop"
    /\ flags.script = "parts"
    /\ mi <= Len(modelsToProcess)
    /\ fr' = FreshFrame
    /\ g' = [g EXCEPT !.invoked = Append(@, modelName)]
    /\ pc' = "p_srcModel"
    /\ UNCHANGED <<src, dest, file, flags, modelsToProcess, mi, progress, budget, rt>>

\* stats.errors++ of migrateTaskPartsForModel
PCountError(f) == [f EXCEPT !.pstats.errors = @ + 1]

\* Step 1 (lines 118-131)
PGetSourceModel ==
    /\ pc = "p_srcModel"
    /\ \E o \in Outcomes :
          LET resp == IF o = "error" THEN ErrorResponse
                      ELSE maybeSingle(ModelRows(src, modelName))
          IN  /\ budget' = Spend(o)
              /\ g' = Issued("srcReads", o)
              /\ IF o = "throw" \/ resp.error \/ resp.data = <<>>
                 THEN fr' = PCountError(fr) /\ pc' = "p_ret"
                 ELSE /\ fr' = [fr EXCEPT !.sourceModel = resp.data]
                      /\ pc' = "p_destModel"
    /\ UNCHANGED <<src, dest, file, flags, modelsToProcess, mi, progress, rt>>

\* Step 2 (lines 133-146)
PGetDestModel ==
    /\ pc = "p_destModel"
    /\ \E o \in Outcomes :
          LET resp == IF o = "error" THEN ErrorResponse
                      ELSE maybeSingle(ModelRows(dest, modelName))
          IN  /\ budget' = Spend(o)
              /\ g' = Issued("destReads", o)
              /\ IF o = "throw" \/ resp.error \/ resp.data = <<>>
                 THEN fr' = PCountError(fr) /\ pc' = "p_ret"
                 ELSE /\ fr' = [fr EXCEPT !.destModel = resp.data]
                      /\ pc' = "p_srcIntervals"
    /\ UNCHANGED <<src, dest, file, flags, modelsToProcess, mi, progress, rt>>

\* Step 3 (lines 148-161)
PGetSourceIntervals ==
    /\ pc = "p_srcIntervals"
    /\ \E o \in Outcomes :
          LET rows == IF o = "ok" THEN IntervalRows(src, fr.sourceModel[1].id) ELSE <<>>
          IN  /\ budget' = Spend(o)
              /\ g' = Issued("srcReads", o)
              /\ IF o = "throw"
                 THEN fr' = PCountError(fr) /\ pc' = "p_ret"
                 ELSE IF o = "error" \/ Len(rows) = 0
                 THEN fr' = fr /\ pc' = "p_ret"
                 ELSE /\ fr' = [fr EXCEPT !.sourceIntervals = rows]
                      /\ pc' = "p_srcTasks"
    /\ UNCHANGED <<src, dest, file, flags, modelsToProcess, mi, progress, rt>>

\* sourceIntervals.map(i => i.id)
Ids(rows) == [i \in 1..Len(rows) |-> rows[i].id]

\* Step 4 (lines 163-176): one multi-get with every source interval ID
PGetSourceTasks ==
    /\ pc = "p_srcTasks"
    /\ \E o \in Outcomes :
          LET sourceIntervalIds == Ids(fr.sourceIntervals)
              rows == IF o = "ok" THEN TaskRowsIn(src, sourceIntervalIds) ELSE <<>>
          IN  /\ budget' = Spend(o)
              /\ g' = [Issued("srcReads", o) EXCEPT
                          !.multiGets = Append(@, Len(sourceIntervalIds))]
              /\ IF o = "throw"
                 THEN fr' = PCountError(fr) /\ pc' = "p_ret"
                 ELSE IF o = "error" \/ Len(rows) = 0
                 THEN fr' = fr /\ pc' = "p_ret"
                 ELSE /\ fr' = [fr EXCEPT !.sourceTasks = rows]
                      /\ pc' = "p_srcParts"
    /\ UNCHANGED <<src, dest, file, flags, modelsToProcess, mi, progress, rt>>

\* the rows of every chunk of task IDs, one chunk after the other
RECURSIVE FetchPartsFrom(_, _, _)
FetchPartsFrom(store, chunks, k) ==
    IF k > Len(chunks) THEN <<>>
    ELSE PartRowsIn(store, chunks[k]) \o FetchPartsFrom(store, chunks, k + 1)

\* Step 5 (lines 178-208): the chunked fetch, retried as a whole; a chunk that
\* fails on every attempt ends the model in the catch
PGetSourceParts ==
    /\ pc = "p_srcParts"
    /\ LET chunks == ChunksFrom(Ids(fr.sourceTasks), 0)
       IN  \E o \in Outcomes :
              /\ budget' = Spend(o)
              \* line 190: an error response is thrown inside fn, so that
              \* every invocation of fn throws
              /\ g' = NoteFailure(
                          [g EXCEPT !.io[modelName].srcReads = @ + Len(chunks),
                                    !.chunkCalls = chunks,
                                    !.multiGets = @ \o SizesOf(chunks)],
                          "srcReads", o, Invocations("throw"))
              /\ IF o # "ok"
                 THEN fr' = PCountError(fr) /\ pc' = "p_ret"
                 ELSE LET parts == FetchPartsFrom(src, chunks, 1)
                      IN  IF Len(parts) = 0
                          THEN fr' = fr /\ pc' = "p_ret"
                          ELSE /\ fr' = [fr EXCEPT !.allParts = parts,
                                                   !.pstats.partsFound = Len(parts)]
                               /\ pc' = "p_destIntervals"
    /\ UNCHANGED <<src, dest, file, flags, modelsToProcess, mi, progress, rt>>

\* Step 6 (lines 210-233): the destination intervals, then the interval map
PGetDestIntervals ==
    /\ pc = "p_destIntervals"
    /\ \E o \in Outcomes :
          /\ budget' = Spend(o)
          /\ g' = Issued("destReads", o)
          /\ IF o # "ok"
             THEN fr' = PCountError(fr) /\ pc' = "p_ret"
             ELSE LET dIntervals == IntervalRows(dest, fr.destModel[1].id)
                  IN  /\ fr' = [fr EXCEPT
                                   !.destIntervals = dIntervals,
                                   !.intervalMap =
                                       BuildIntervalMap(fr.sourceIntervals, dIntervals),
                                   !.ti = 1]
                      /\ pc' = "p_mapTasks"
    /\ UNCHANGED <<src, dest, file, flags, modelsToProcess, mi, progress, rt>>

\* dropped parts that are not counted
PartsUnmappedNotCounted(parts, tmap) == 0

\* lines 267-285: the parts rewritten, and the number of parts dropped
PartsUnmapped(parts, tmap) ==
    Len(Filter(parts, LAMBDA part : ~MapHas(tmap, part.task_id)))

\* Step 7 (lines 235-263): one source task of the loop, matched to the first
\* destination task with its composite key; after the last one, Step 8
PMapTask ==
    /\ pc = "p_mapTasks"
    /\ LET sourceTask == fr.sourceTasks[fr.ti]
           last == fr.ti = Len(fr.sourceTasks)
           Built(f) ==
               IF last
               THEN [f EXCEPT
                       !.partsToInsert = RewriteParts(f.allParts, f.taskIdMap),
                       !.pstats.partsSkipped =
                           @ + PartsUnmapped(f.allParts, f.taskIdMap),
                       !.pi = 1, !.pbi = 0]
               ELSE f
           After(f) ==
               IF ~last THEN "p_mapTasks"
               ELSE IF Len(Built(f).partsToInsert) = 0 THEN "p_ret"
               ELSE "p_stage"
       IN  IF ~MapHas(fr.intervalMap, sourceTask.interval_id)
           THEN /\ fr' = Built([fr EXCEPT !.ti = @ + 1])
                /\ pc' = After(fr)
                /\ UNCHANGED <<budget, g>>
           ELSE \E o \in Outcomes :
                  LET destTasks ==
                          IF o = "ok"
                          THEN Limit(TaskRowsByKey(dest,
                                         MapGet(fr.intervalMap, sourceTask.interval_id),
                                         sourceTask.description, sourceTask.type), 1)
                          ELSE <<>>
                      mapped == IF Len(destTasks) > 0
                                THEN [fr EXCEPT
                                         !.taskIdMap =
                                             MapSet(@, sourceTask.id, destTasks[1].id),
                                         !.ti = @ + 1]
                                ELSE [fr EXCEPT !.ti = @ + 1]
                  IN  /\ budget' = Spend(o)
                      /\ g' = Issued("destReads", o)
                      /\ IF o = "throw"
                         THEN fr' = PCountError(fr) /\ pc' = "p_ret"
                         ELSE fr' = Built(mapped) /\ pc' = After(mapped)
    /\ UNCHANGED <<src, dest, file, flags, modelsToProcess, mi, progress, rt>>

\* lines 292-313: the dry-run count, or the duplicate check of one part
PStagePart ==
    /\ pc = "p_stage"
    /\ IF ~WritesEnabled(flags)
       THEN /\ fr' = [fr EXCEPT !.pstats.partsMigrated = Len(fr.partsToInsert)]
            /\ pc' = "p_ret"
            /\ UNCHANGED <<budget, g>>
       ELSE LET part == fr.partsToInsert[fr.pi]
                last == fr.pi = Len(fr.partsToInsert)
            IN  \E o \in Outcomes :
                   LET existing ==
                           IF o = "error" THEN ErrorResponse
                           ELSE maybeSingle(PartRowsByKey(dest, part.task_id, part.name))
                       staged ==
                           IF existing.data = <<>>
                           THEN [fr EXCEPT !.partsToInsertFiltered = Append(@, part),
                                           !.pi = @ + 1]
                           ELSE [fr EXCEPT !.pstats.partsSkipped = @ + 1,
                                           !.pi = @ + 1]
                   IN  /\ budget' = Spend(o)
                       /\ g' = Issued("destReads", o)
                       /\ IF o = "throw"
                          THEN fr' = PCountError(fr) /\ pc' = "p_ret"
                          ELSE /\ fr' = staged
                               /\ pc' = IF ~last THEN "p_stage"
                                        ELSE IF Len(staged.partsToInsertFiltered) > 0
                                        THEN "p_insert" ELSE "p_ret"
    /\ UNCHANGED <<src, dest, file, flags, modelsToProcess, mi, progress, rt>>

\* lines 315-336: one batch of the insert loop; a failed batch is counted
\* and the loop goes on
PInsertParts ==
    /\ pc = "p_insert"
    /\ LET batch == Slice(fr.partsToInsertFiltered, fr.pbi, batchSize)
       IN  \E o \in Outcomes :
              /\ budget' = Spend(o)
              /\ g' = Issued("destWrites", o)
              /\ dest' = IF o = "ok" THEN InsertPartsInto(dest, batch) ELSE dest
              /\ fr' = IF o = "ok"
                       THEN [fr EXCEPT !.pstats.partsMigrated = @ + Len(batch),
                                       !.pbi = @ + batchSize]
                       ELSE [PCountError(fr) EXCEPT !.pbi = @ + batchSize]
              /\ pc' = IF fr.pbi + batchSize < Len(fr.partsToInsertFiltered)
                       THEN "p_insert" ELSE "p_ret"
    /\ UNCHANGED <<src, file, flags, modelsToProcess, mi, progress, rt>>

\* main, lines 363-368: the totals
PReturn ==
    /\ pc = "p_ret"
    /\ progress' = [progress EXCEPT
                       !.totalPartsFound = @ + fr.pstats.partsFound,
                       !.totalPartsMigrated = @ + fr.pstats.partsMigrated,
                       !.totalPartsSkipped = @ + fr.pstats.partsSkipped,
                       !.totalErrors = @ + fr.pstats.errors]
    /\ g' = [g EXCEPT !.returned = Append(@, [model |-> modelName, stats |-> fr.pstats,
                                               staged |-> Len(fr.partsToInsert)])]
    /\ mi' = mi + 1
    /\ fr' = FreshFrame
    /\ pc' = "loop"
    /\ UNCHANGED <<src, dest, file, flags, modelsToProcess, budget, rt>>

\* main, lines 370-379: the summary is printed and main returns
PFinish ==
    /\ pc = "loop"
    /\ flags.script = "parts"
    /\ mi > Len(modelsToProcess)
    /\ g' = [g EXCEPT !.history[Len(g.history)].exit = "ok",
                      !.history[Len(g.history)].exitCode = <<0>>]
    /\ Exited("ok")
    /\ UNCHANGED <<src, dest, file, flags, budget, rt>>

(***************************************************************************)
(* retryWithBackoff (lines 108-130), on its own.  rt.plan[k] tells whether  *)
(* the k-th invocation of fn succeeds; it then returns <<"value", k>>, and  *)
(* otherwise throws <<"error", k>>.  rt.log lists the invocations and the   *)
(* waits in the order they happen.                                          *)
(***************************************************************************)
\* line 118: fn is invoked once
RetryCall ==
    /\ rt.pc = "call"
    /\ rt' = AfterCall(rt)
    /\ UNCHANGED <<src, dest, file, pc, flags, modelsToProcess, mi, progress, fr,
                   budget, g>>

\* lines 122-124: the wait, then the next round of the loop
RetryWait ==
    /\ rt.pc = "wait"
    /\ rt' = AfterWait(rt)
    /\ UNCHANGED <<src, dest, file, pc, flags, modelsToProcess, mi, progress, fr,
                   budget, g>>

(***************************************************************************)
(* Data sets.                                                               *)
(***************************************************************************)
SrcModelId(n) == <<"src", n>>

DestModelId(n) == <<"dest", n>>

ModelTable(names, idOf(_)) ==
    [i \in 1..Len(names) |-> [id |-> idOf(names[i]), name |-> names[i]]]

Without(names, n) == Filter(names, LAMBDA x : x # n)

\* the (description, type) pairs source tasks are drawn from
TaskKeys == {<<"d1", "t1">>, <<"d1", "t2">>, <<"d2", "t1">>}

PartNames == {"n1", "n2"}

\* Source: model A with intervals 1 (100 hours) and 2 (v2 hours), model B with
\* interval 3; tasks tk[i] = <<interval, <<description, type>>>> and parts
\* pk[j] = <<task, name>>.  Destination: model B's interval 13 first, then
\* model A's intervals 11 (w1 hours) and 12 (w2 hours); with pre, a task that
\* is already there.  missing names the model row that does not exist.
Stores(missing, v2, w1, w2, tk, pk, pre) ==
    [src |->
        [models |-> ModelTable(IF missing = "srcA"
                               THEN Without(MIGRATION_CONFIG_models, "A")
                               ELSE MIGRATION_CONFIG_models, SrcModelId),
         intervals |->
            <<[id |-> 1, model_id |-> SrcModelId("A"), interval_value |-> 100],
              [id |-> 2, model_id |-> SrcModelId("A"), interval_value |-> v2],
              [id |-> 3, model_id |-> SrcModelId("B"), interval_value |-> 100]>>,
         tasks |-> [i \in 1..Len(tk) |->
                      [id |-> i, interval_id |-> tk[i][1],
                       description |-> tk[i][2][1], type |-> tk[i][2][2]]],
         parts |-> [j \in 1..Len(pk) |->
                      [id |-> j, task_id |-> pk[j][1], name |-> pk[j][2]]]],
     dest |->
        [models |-> ModelTable(IF missing = "destA"
                               THEN Without(MIGRATION_CONFIG_models, "A")
                               ELSE IF missing = "destB"
                               THEN Without(MIGRATION_CONFIG_models, "B")
                               ELSE MIGRATION_CONFIG_models, DestModelId),
         intervals |->
            <<[id |-> 13, model_id |-> DestModelId("B"), interval_value |-> 100],
              [id |-> 11, model_id |-> DestModelId("A"), interval_value |-> w1],
              [id |-> 12, model_id |-> DestModelId("A"), interval_value |-> w2]>>,
         tasks |-> IF pre
                   THEN <<[id |-> 101, interval_id |-> 11, description |-> "d1",
                           type |-> "t1", src |-> 0]>>
                   ELSE <<>>,
         parts |-> <<>>,
         nextId |-> 201]]

\* the end-to-end scenario of the specification: intervals 100 and 300 matched
\* on both sides, five new tasks under interval 100, two parts under one of them
E2EStores ==
    Stores("none", 300, 100, 300,
           <<<<1, <<"d1", "t1">>>>, <<1, <<"d2", "t1">>>>, <<1, <<"d3", "t1">>>>,
             <<1, <<"d4", "t1">>>>, <<1, <<"d5", "t1">>>>>>,
           <<<<3, "n1">>, <<3, "n2">>>>, FALSE)

\* the data sets drawn for the runs that may fail and be killed
SmallStores ==
    {st \in {Stores(missing, 300, 100, 300, tk, pk, pre) :
                missing \in {"none", "destA"},
                tk \in {<<>>, <<<<1, <<"d1", "t1">>>>>>},
                pk \in {<<>>, <<<<1, "n1">>>>},
                pre \in BOOLEAN} :
        \A p \in Range(st.src.parts) :
            \E t \in Range(st.src.tasks) : t.id = p.task_id}

\* the data sets drawn for the runs without failures: every choice of up to
\* MaxSrcTasks tasks and MaxSrcParts parts
IsGenerated(s, d) ==
    \E missing \in {"none", "destA"}, v2 \in {100, 300}, w1 \in {100, 301},
       w2 \in {100, 300}, pre \in BOOLEAN,
       nT \in 0..MaxSrcTasks, nP \in 0..MaxSrcParts :
       \E tk \in [1..nT -> {1, 2} \X TaskKeys],
          pk \in [1..nP -> (1..nT) \X PartNames] :
          LET st == Stores(missing, v2, w1, w2, tk, pk, pre)
          IN  s = st.src /\ d = st.dest

(***************************************************************************)
(* Specifications.                                                          *)
(***************************************************************************)
InitProcess(failures, crashes, runs) ==
    /\ file = NoFile
    /\ pc = "exited"
    /\ flags = [script |-> "tasks", isDryRun |-> TRUE, shouldResume |-> FALSE,
                modelFilter |-> NoFilter, env |-> FullEnv]
    /\ modelsToProcess = <<>>
    /\ mi = 1
    /\ progress = FreshProgress(0)
    /\ fr = FreshFrame
    /\ budget = [failuresLeft |-> failures, crashesLeft |-> crashes,
                 runsLeft |-> runs]
    /\ g = FreshGhost(dest)

\* the runs of both scripts, with remote failures and kills
Init ==
    /\ \E d \in SmallStores : src = d.src /\ dest = d.dest
    /\ InitProcess(MaxFailures, MaxCrashes, MaxRuns)
    /\ rt = RtIdle

TasksScript ==
    \/ MainStart \/ NextModel \/ ValidateModel \/ GetSourceModel
    \/ GetSourceIntervals \/ GetDestinationIntervals \/ GetSourceTasks
    \/ DupCheck \/ InsertTasks \/ BeginParts \/ GetSourceTaskParts
    \/ BuildParts \/ InsertParts \/ SaveAfterModel \/ SaveProgressDone \/ Report
    \/ MainReturn

PartsScript ==
    \/ PMainStart \/ PNextModel \/ PGetSourceModel \/ PGetDestModel
    \/ PGetSourceIntervals \/ PGetSourceTasks \/ PGetSourceParts
    \/ PGetDestIntervals \/ PMapTask \/ PStagePart \/ PInsertParts
    \/ PReturn \/ PFinish

Next == Launch \/ ValidateEnv \/ TasksScript \/ PartsScript \/ Crash

Spec == Init /\ [][Next]_vars

\* one run of either script over the generated data sets, without failures
InitData ==
    /\ \/ IsGenerated(src, dest)
       \/ src = E2EStores.src /\ dest = E2EStores.dest
    /\ InitProcess(0, 0, 1)
    /\ rt = RtIdle

NextData == Launch \/ ValidateEnv \/ TasksScript \/ PartsScript

SpecData == InitData /\ [][NextData]_vars

\* getSourceTaskParts on its own, entered with the task IDs 1..n
InitChunk ==
    /\ \E n \in 0..MaxChunkIds :
          /\ src = [E2EStores.src EXCEPT
                       !.parts = [j \in 1..n |-> [id |-> j, task_id |-> j,
                                                   name |-> "n1"]]]
          /\ fr = [FreshFrame EXCEPT
                      !.taskIdMap = [i \in 1..n |-> <<i, 1000 + i>>],
                      !.taskIds = [i \in 1..n |-> i]]
    /\ dest = E2EStores.dest
    /\ file = NoFile
    /\ pc = "srcParts"
    /\ flags = [script |-> "tasks", isDryRun |-> FALSE, shouldResume |-> FALSE,
                modelFilter |-> NoFilter, env |-> FullEnv]
    /\ modelsToProcess = MIGRATION_CONFIG_models
    /\ mi = 1
    /\ progress = [FreshProgress(2) EXCEPT !.currentModel = <<"A">>]
    /\ budget = [failuresLeft |-> 0, crashesLeft |-> 0, runsLeft |-> 0]
    /\ g = [FreshGhost(dest) EXCEPT !.invoked = <<"A">>]
    /\ rt = RtIdle

SpecChunk == InitChunk /\ [][GetSourceTaskParts]_vars

\* the loads of the source tasks and parts of model A in either script, for
\* every number of source intervals up to MaxChunkIds, one task on each
InitMultiGet ==
    /\ \E n \in 0..MaxChunkIds, sc \in Scripts :
          /\ src = [E2EStores.src EXCEPT
                       !.intervals = [i \in 1..n |->
                                        [id |-> i, model_id |-> SrcModelId("A"),
                                         interval_value |-> i]],
                       !.tasks = [i \in 1..n |->
                                    [id |-> i, interval_id |-> i,
                                     description |-> "d1", type |-> "t1"]],
                       !.parts = <<>>]
          /\ flags = [script |-> sc, isDryRun |-> FALSE, shouldResume |-> FALSE,
                      modelFilter |-> NoFilter, env |-> FullEnv]
          /\ pc = IF sc = "tasks" THEN "srcTasks" ELSE "p_srcTasks"
          /\ fr = [FreshFrame EXCEPT
                      !.sourceModel = ModelRows(src, "A"),
                      !.destModel = ModelRows(E2EStores.dest, "A"),
                      !.sourceIntervals = src.intervals,
                      !.intervalMap = IF sc = "tasks"
                                      THEN [i \in 1..n |-> <<i, 1000 + i>>]
                                      ELSE <<>>]
    /\ dest = E2EStores.dest
    /\ file = NoFile
    /\ modelsToProcess = MIGRATION_CONFIG_models
    /\ mi = 1
    /\ progress = [FreshProgress(2) EXCEPT !.currentModel = <<"A">>]
    /\ budget = [failuresLeft |-> 0, crashesLeft |-> 0, runsLeft |-> 0]
    /\ g = [FreshGhost(dest) EXCEPT !.invoked = <<"A">>]
    /\ rt = RtIdle

NextMultiGet == GetSourceTasks \/ PGetSourceTasks \/ PGetSourceParts

SpecMultiGet == InitMultiGet /\ [][NextMultiGet]_vars

\* retryWithBackoff on its own, for every attempt count and base delay drawn
InitRetry ==
    /\ src = E2EStores.src
    /\ dest = E2EStores.dest
    /\ InitProcess(0, 0, 0)
    /\ \E n \in 0..MaxAttempts, k \in 1..MaxDelayUnits,
          plan \in [1..MaxAttempts -> BOOLEAN] :
          rt = RetryEnter([RtIdle EXCEPT !.attempts = n,
                                         !.delayMs = retryDelayMs * k,
                                         !.attempt = 1,
                                         !.plan = plan])

NextRetry == RetryCall \/ RetryWait

SpecRetry == InitRetry /\ [][NextRetry]_vars

(***************************************************************************)
(* What the properties below talk about.                                    *)
(***************************************************************************)
\* what a process that started now would load from the checkpoint file
Checkpoint == loadProgress(file)

\* a process has been started, and this is its record
ThisRun == g.history[Len(g.history)]

Started == Len(g.history) > 0

\* no remote call has failed since the process of record h was started
NoFailureSince(h) == budget.failuresLeft = h.failuresBefore

\* migrate-maintenance-tasks without --dry-run, over the whole configured list
FullLiveRun(h) ==
    /\ h.script = "tasks"
    /\ ~h.isDryRun
    /\ h.modelFilter = NoFilter

\* no two tasks with the same (interval_id, description, type)
NoDuplicateTasks(tasks) ==
    \A i, j \in 1..Len(tasks) :
        (/\ tasks[i].interval_id = tasks[j].interval_id
         /\ tasks[i].description = tasks[j].description
         /\ tasks[i].type = tasks[j].type) => i = j

\* no source row has been copied into two rows
NoRowCopiedTwice(rows) ==
    \A i, j \in 1..Len(rows) :
        (rows[i].src # 0 /\ rows[i].src = rows[j].src) => i = j

\* the entry of a map, as a sequence of zero or one value
Entry(m, k) == IF MapHas(m, k) THEN <<MapGet(m, k)>> ELSE <<>>

\* the row with this id
RowOf(rows, id) == CHOOSE r \in Range(rows) : r.id = id

\* the destination interval a source interval is matched to: the first
\* interval of the destination model of the same name with the same value
MatchOf(si) ==
    Find(dest.intervals,
         LAMBDA di : /\ di.model_id = DestModelId(si.model_id[2])
                     /\ di.interval_value = si.interval_value)

\* the source tasks of the model that a run has to insert: their interval is
\* matched and the destination has no task with their composite key
EligibleTasks(name) ==
    {t \in Range(src.tasks) :
        LET si == RowOf(src.intervals, t.interval_id)
        IN  /\ si.model_id = SrcModelId(name)
            /\ ModelRows(src, name) # <<>>
            /\ ModelRows(dest, name) # <<>>
            /\ MatchOf(si) # <<>>
            /\ TaskRowsByKey(dest, MatchOf(si)[1].id, t.description, t.type) = <<>>}

(***************************************************************************)
(* C1.  Idempotence of the full migration: a second live run of             *)
(* migrate-maintenance-tasks right after a first complete one, with no      *)
(* remote failure, inserts no task and no part.                             *)
(***************************************************************************)
C1_SecondRunInsertsNothing ==
    (/\ Len(g.history) = 2
     /\ FullLiveRun(g.history[1]) /\ g.history[1].exit = "ok"
     /\ ~g.history[1].shouldResume
     /\ FullLiveRun(g.history[2]) /\ ~g.history[2].shouldResume
     /\ NoFailureSince(g.history[1]))
    => /\ dest.tasks = g.destAtLaunch.tasks
       /\ dest.parts = g.destAtLaunch.parts

(***************************************************************************)
(* C2.  With --dry-run neither script writes to the destination: it is the  *)
(* same all through the run and no insert is issued; and the tasksMigrated  *)
(* that migrateModel returns is the number of staged tasks, which is the    *)
(* number of eligible tasks of the model.                                   *)
(***************************************************************************)
C2_DryRunNeverWrites ==
    (Started /\ flags.isDryRun)
    => /\ dest = g.destAtLaunch
       /\ \A n \in AllNames : g.io[n].destWrites = 0
       /\ pc = "ret" => fr.stats.tasksMigrated = Len(fr.tasksToInsert)
       /\ flags.script = "tasks" =>
             \A k \in 1..Len(g.returned) :
                 /\ g.returned[k].stats.tasksMigrated = g.returned[k].staged
                 /\ NoFailureSince(ThisRun) =>
                       g.returned[k].stats.tasksMigrated =
                           Cardinality(EligibleTasks(g.returned[k].model))

C2_Witness ==
    /\ Started /\ flags.isDryRun /\ flags.script = "tasks"
    /\ \E k \in 1..Len(g.returned) : g.returned[k].stats.tasksMigrated > 0

(***************************************************************************)
(* C3.  Resume: a model the loaded checkpoint lists as completed is not     *)
(* handed to migrateModel, no remote call is made for it, and its entry in  *)
(* the saved modelStats and its row of the report are the checkpoint's.     *)
(***************************************************************************)
C3_ResumeSkipsCompleted ==
    \A n \in AllNames :
        (/\ Started /\ flags.script = "tasks" /\ flags.shouldResume
         /\ g.loaded # <<>>
         /\ Includes(g.loaded[1].completedModels, n))
        => /\ ~Includes(g.invoked, n)
           /\ g.io[n] = ZeroIo
           /\ Checkpoint # <<>> =>
                 Entry(Checkpoint[1].modelStats, n) = Entry(g.loaded[1].modelStats, n)
           /\ Entry(g.loaded[1].modelStats, n) # <<>>
           /\ \A i \in 1..Len(g.report) :
                 g.report[i].model = n =>
                     /\ g.report[i] = ReportRow(g.loaded[1], n)
                     /\ g.report[i].status = "Completed"
                     /\ g.report[i].tasksFound =
                            MapGet(g.loaded[1].modelStats, n).tasksFound
                     /\ g.report[i].errors =
                            MapGet(g.loaded[1].modelStats, n).errors

C3_Witness ==
    /\ Started /\ flags.script = "tasks" /\ flags.shouldResume
    /\ g.loaded # <<>>
    /\ Includes(g.loaded[1].completedModels, "B")
    /\ g.invoked = <<"A">>
    /\ Len(g.report) = 2

(***************************************************************************)
(* C4.  Crash recovery: after the process was killed inside a model and     *)
(* restarted with --resume, that model is processed again, and once the     *)
(* run is over nothing the first attempt wrote is in the destination twice. *)
(***************************************************************************)
C4_CrashRecoveryNoDoubleInsert ==
    (/\ Len(g.history) = 2
     /\ g.history[1].script = "tasks" /\ ~g.history[1].isDryRun
     /\ g.history[1].exit = "killed" /\ g.history[1].current # <<>>
     /\ g.history[2].script = "tasks" /\ ~g.history[2].isDryRun
     /\ g.history[2].shouldResume
     /\ g.history[2].modelFilter = g.history[1].modelFilter
     /\ g.history[2].exit = "ok"
     /\ NoFailureSince(g.history[1]))
    => /\ Includes(g.invoked, g.history[1].current[1])
       /\ NoRowCopiedTwice(dest.tasks)
       /\ NoRowCopiedTwice(dest.parts)

(***************************************************************************)
(* C5.  Duplicate detection: a live run that starts on a destination with   *)
(* no two tasks of the same (interval_id, description, type) leaves it so.  *)
(***************************************************************************)
C5_NoDuplicateTasksCreated ==
    (/\ Started /\ flags.script = "tasks" /\ ~flags.isDryRun
     /\ NoDuplicateTasks(g.destAtLaunch.tasks))
    => NoDuplicateTasks(dest.tasks)

(***************************************************************************)
(* C6.  A model with no row in the destination's equipment_models: the run  *)
(* returns tasksFound = 0, tasksMigrated = 0 and errors >= 1 for it, reads  *)
(* nothing from the source and writes nothing for it, and the checkpoint    *)
(* never lists it as completed with zero errors.                            *)
(***************************************************************************)
C6_ModelMissingInDestination ==
    \A n \in AllNames :
        ModelRows(dest, n) = <<>> =>
            /\ (Started /\ flags.script = "tasks") =>
                  /\ g.io[n].srcReads = 0
                  /\ g.io[n].destWrites = 0
                  /\ \A k \in 1..Len(g.returned) :
                        g.returned[k].model = n =>
                            /\ g.returned[k].stats.tasksFound = 0
                            /\ g.returned[k].stats.tasksMigrated = 0
                            /\ g.returned[k].stats.errors >= 1
            /\ (Checkpoint # <<>> /\ Includes(Checkpoint[1].completedModels, n)) =>
                  /\ MapHas(Checkpoint[1].modelStats, n)
                  /\ MapGet(Checkpoint[1].modelStats, n).errors >= 1

C6_Witness ==
    /\ Started /\ flags.script = "tasks"
    /\ ModelRows(dest, "A") = <<>>
    /\ \E k \in 1..Len(g.returned) : g.returned[k].model = "A"
    /\ Checkpoint # <<>> /\ Includes(Checkpoint[1].completedModels, "A")

(***************************************************************************)
(* C7.  Interval matching is exact: every pair of the interval map joins a  *)
(* source interval of the model to a destination interval of the resolved   *)
(* destination model with the same interval_value, and a source interval    *)
(* whose value no destination interval of the model has is not in the map.  *)
(***************************************************************************)
C7_IntervalMatchingExact ==
    /\ \A i \in 1..Len(fr.intervalMap) :
          \E si \in Range(fr.sourceIntervals), di \in Range(dest.intervals) :
              /\ si.id = fr.intervalMap[i][1]
              /\ di.id = fr.intervalMap[i][2]
              /\ si.model_id = fr.sourceModel[1].id
              /\ di.model_id = fr.destModel[1].id
              /\ di.interval_value = si.interval_value
    /\ \A si \in Range(fr.sourceIntervals) :
          (\A di \in Range(dest.intervals) :
               di.model_id = fr.destModel[1].id
                   => di.interval_value # si.interval_value)
          => ~MapHas(fr.intervalMap, si.id)

C7_Witness ==
    /\ Len(fr.intervalMap) >= 1
    /\ \E si \in Range(fr.sourceIntervals) :
          /\ si.interval_value = 300
          /\ ~MapHas(fr.intervalMap, si.id)
          /\ \E di \in Range(fr.destIntervals) : di.interval_value = 301

(***************************************************************************)
(* C8.  In a live run of migrate-maintenance-tasks with no remote failure   *)
(* every part the run inserts has the task_id of a destination task with    *)
(* the description and type of the part's source task, on the destination   *)
(* interval its source interval is matched to.  For five new source tasks   *)
(* under a matched interval and two parts under one of them: tasksMigrated  *)
(* = 5, tasksSkipped = 0, and two parts are inserted, each on the task      *)
(* that was created for its source task.                                    *)
(***************************************************************************)
InsertedParts == {p \in Range(dest.parts) : p \notin Range(g.destAtLaunch.parts)}

InsertedTasks == {t \in Range(dest.tasks) : t \notin Range(g.destAtLaunch.tasks)}

C8_PartsPointAtTheirTask ==
    (Started /\ flags.script = "tasks" /\ ~flags.isDryRun
     /\ NoFailureSince(ThisRun))
    => /\ \A p \in InsertedParts :
             LET sourceTask == RowOf(src.tasks, RowOf(src.parts, p.src).task_id)
                 si == RowOf(src.intervals, sourceTask.interval_id)
             IN  /\ MatchOf(si) # <<>>
                 /\ \E dt \in Range(dest.tasks) :
                       /\ dt.id = p.task_id
                       /\ dt.interval_id = MatchOf(si)[1].id
                       /\ dt.description = sourceTask.description
                       /\ dt.type = sourceTask.type
       /\ (src = E2EStores.src /\ g.destAtLaunch = E2EStores.dest) =>
             /\ \A k \in 1..Len(g.returned) :
                   g.returned[k].model = "A" =>
                       /\ g.returned[k].stats.tasksMigrated = 5
                       /\ g.returned[k].stats.tasksSkipped = 0
                       /\ Cardinality(InsertedTasks) = 5
                       /\ Cardinality(InsertedParts) = 2
             /\ \A p \in InsertedParts :
                   \E dt \in InsertedTasks :
                       /\ dt.id = p.task_id
                       /\ dt.src = RowOf(src.parts, p.src).task_id

C8_Witness ==
    /\ Started /\ flags.script = "tasks" /\ ~flags.isDryRun
    /\ src = E2EStores.src /\ g.destAtLaunch = E2EStores.dest
    /\ pc = "exited"
    /\ Cardinality(InsertedParts) = 2
    /\ \E k \in 1..Len(g.returned) :
          g.returned[k].model = "A" /\ g.returned[k].stats.tasksMigrated = 5

(***************************************************************************)
(* C9.  getSourceTaskParts reads the parts of n task IDs in ceil(n / 100)   *)
(* calls; the k-th call asks for the IDs 100 (k - 1) + 1 .. min(100 k, n)   *)
(* of the list, so the calls are consecutive slices of at most 100 IDs that *)
(* hold every ID once: 250 IDs are read in calls of 100, 100 and 50 IDs,    *)
(* and no call is made for an empty list.                                   *)
(***************************************************************************)
C9_PartsFetchedInChunks ==
    LET n == Len(fr.taskIds)
        calls == g.chunkCalls
    IN  /\ \A k \in 1..Len(calls) :
              /\ 100 * (k - 1) < n
              /\ calls[k] = [j \in 1..(IF 100 * k < n THEN 100 ELSE n - 100 * (k - 1))
                                |-> fr.taskIds[100 * (k - 1) + j]]
              /\ Len(calls[k]) <= 100
        /\ pc = "partsFetched" =>
              /\ Len(calls) = (n + 99) \div 100
              /\ n = 250 => /\ Len(calls) = 3
                            /\ Len(calls[1]) = 100
                            /\ Len(calls[2]) = 100
                            /\ Len(calls[3]) = 50
              /\ n = 0 => calls = <<>>
              /\ Len(fr.allParts) = n

C9_Witness ==
    /\ pc = "partsFetched"
    /\ Len(fr.taskIds) = 250
    /\ Len(g.chunkCalls) = 3

(***************************************************************************)
(* C10.  retryWithBackoff with three attempts, on an operation that throws  *)
(* on its first and second invocation and succeeds on the third: it returns *)
(* the result of the third invocation, the operation is invoked three       *)
(* times, and there are two waits, of the base delay after the first        *)
(* failure and of twice the base delay after the second, each before the    *)
(* next invocation.                                                         *)
(***************************************************************************)
C10_RetryTwiceThenSucceed ==
    (/\ rt.attempts = retryAttempts
     /\ ~rt.plan[1] /\ ~rt.plan[2] /\ rt.plan[3]
     /\ rt.pc \in {"returned", "thrown"})
    => /\ rt.pc = "returned"
       /\ rt.result = <<"value", 3>>
       /\ rt.log = << <<"call", 1>>, <<"wait", rt.delayMs>>,
                      <<"call", 2>>, <<"wait", 2 * rt.delayMs>>,
                      <<"call", 3>> >>

C10_Witness ==
    /\ rt.attempts = retryAttempts
    /\ ~rt.plan[1] /\ ~rt.plan[2] /\ rt.plan[3]
    /\ rt.pc = "returned"
    /\ Len(rt.log) = 5

(***************************************************************************)
(* C11.  retryWithBackoff with N >= 1 attempts on an operation that throws  *)
(* on every invocation: the operation is invoked N times, there is a wait   *)
(* of delayMs * 2^(k-1) after the k-th failure for k < N and none after the *)
(* N-th, and the error of the N-th invocation is thrown.  And an invocation *)
(* that succeeded is the last one.                                          *)
(***************************************************************************)
AllThrow == \A k \in 1..rt.attempts : ~rt.plan[k]

C11_RetryExhausted ==
    /\ (rt.attempts >= 1 /\ AllThrow /\ rt.pc \in {"returned", "thrown"})
       => /\ rt.pc = "thrown"
          /\ rt.thrown = <<"error", rt.attempts>>
          /\ Len(rt.log) = 2 * rt.attempts - 1
          /\ \A k \in 1..rt.attempts : rt.log[2 * k - 1] = <<"call", k>>
          /\ \A k \in 1..(rt.attempts - 1) :
                rt.log[2 * k] = <<"wait", rt.delayMs * 2 ^ (k - 1)>>
    /\ \A i \in 1..Len(rt.log) :
          (rt.log[i][1] = "call" /\ rt.plan[rt.log[i][2]]) => i = Len(rt.log)

C11_Witness ==
    /\ rt.attempts = 4 /\ AllThrow
    /\ rt.pc = "thrown"
    /\ Len(rt.log) = 7

(***************************************************************************)
(* C12.  Every remote call of migrate-maintenance-tasks that failed, by an  *)
(* exception or by a response whose error field is set, was attempted the   *)
(* configured number of times before the failure reached the model.         *)
(***************************************************************************)
C12_FailedCallsAreRetried ==
    (Started /\ flags.script = "tasks")
    => \A i \in 1..Len(g.failed) : g.failed[i].invocations = retryAttempts

(***************************************************************************)
(* C13.  A remote failure in a model does not abort the run: when the run   *)
(* of migrate-maintenance-tasks is over, every model of the work list has   *)
(* been handed to migrateModel, and every model a remote call failed for is *)
(* in the saved checkpoint, completed, with an error counted and an entry   *)
(* in the checkpoint's errors.                                              *)
(***************************************************************************)
RunIsOver == Started /\ pc = "exited" /\ ThisRun.exit = "ok"

\* the checkpoint holds the model as completed with an error recorded
ErrorRecorded(n) ==
    /\ Checkpoint # <<>>
    /\ Includes(Checkpoint[1].completedModels, n)
    /\ MapHas(Checkpoint[1].modelStats, n)
    /\ MapGet(Checkpoint[1].modelStats, n).errors >= 1
    /\ \E i \in 1..Len(Checkpoint[1].errors) : Checkpoint[1].errors[i].model = n

\* the work list of the run that is over
WorkListOf(h) ==
    IF h.loaded # <<>> THEN NotCompleted(WorkList(h.modelFilter), h.loaded[1])
    ELSE WorkList(h.modelFilter)

C13_FailureNeverAbortsRun ==
    (RunIsOver /\ ThisRun.script = "tasks")
    => /\ g.invoked = WorkListOf(ThisRun)
       /\ \A i \in 1..Len(g.failed) : ErrorRecorded(g.failed[i].model)

(***************************************************************************)
(* C14.  The checkpoint is overwritten atomically: whenever no process      *)
(* runs, also after a kill during saveProgress, the file is absent or holds *)
(* a whole progress object, the one before the save or the one after it.    *)
(***************************************************************************)
C14_CheckpointNeverTruncated ==
    pc = "exited" => file.state \in {"absent", "complete"}

(***************************************************************************)
(* C15.  With --models the models processed are among the configured ones:  *)
(* no name outside MIGRATION_CONFIG.models is handed to migrateModel or to  *)
(* migrateTaskPartsForModel.                                                *)
(***************************************************************************)
C15_OnlyConfiguredModels ==
    \A i \in 1..Len(g.invoked) : g.invoked[i] \in Range(MIGRATION_CONFIG_models)

(***************************************************************************)
(* C16.  A process started without one of the three connection settings     *)
(* ends at startup with exit code 1: no model is processed, no remote call  *)
(* is issued, the checkpoint file is left as it was and no report is        *)
(* written.                                                                 *)
(***************************************************************************)
SettingMissing(env) == ~env.sourceKey \/ ~env.destUrl \/ ~env.destKey

C16_MissingCredentialIsFatal ==
    (Started /\ SettingMissing(ThisRun.env))
    => /\ pc \in {"env", "exited"}
       /\ g.invoked = <<>>
       /\ \A n \in AllNames : g.io[n] = ZeroIo
       /\ dest = g.destAtLaunch
       /\ file = g.fileAtLaunch
       /\ g.report = <<>>
       /\ ThisRun.exit # "ok"
       /\ (pc = "exited" /\ ThisRun.exit # "killed")
             => ThisRun.exit = "config_error" /\ ThisRun.exitCode = <<1>>

C16_Witness ==
    /\ Started /\ ~ThisRun.env.destKey
    /\ pc = "exited"
    /\ ThisRun.exit = "config_error" /\ ThisRun.exitCode = <<1>>
    /\ file.state = "complete"

(***************************************************************************)
(* C17.  Every multi-get by a list of IDs that either script issues (source *)
(* tasks by interval IDs, source parts by task IDs) carries at most 100 IDs.*)
(***************************************************************************)
C17_MultiGetsAtMost100 ==
    \A i \in 1..Len(g.multiGets) : g.multiGets[i] <= 100

(***************************************************************************)
(* C18.  Dry-run is the default: a run of migrate-maintenance-tasks that    *)
(* was started without --dry-run writes nothing to the destination.         *)
(***************************************************************************)
C18_DryRunIsDefault ==
    (Started /\ ThisRun.script = "tasks" /\ ~ThisRun.isDryRun)
    => /\ dest = g.destAtLaunch
       /\ \A n \in AllNames : g.io[n].destWrites = 0

(***************************************************************************)
(* C19.  Errors are terminal per model across runs: a model whose           *)
(* processing ended with errors is in completedModels of the checkpoint     *)
(* saved right after it, with its error count, and a later --resume run     *)
(* that loads such a checkpoint neither hands the model to migrateModel     *)
(* nor makes a remote call for it.                                          *)
(***************************************************************************)
C19_ErrorsAreTerminal ==
    /\ (Started /\ flags.script = "tasks" /\ pc = "loop")
       => \A k \in 1..Len(g.returned) :
             g.returned[k].stats.errors > 0
             => /\ Checkpoint # <<>>
                /\ Includes(Checkpoint[1].completedModels, g.returned[k].model)
                /\ Entry(Checkpoint[1].modelStats, g.returned[k].model)
                       = <<g.returned[k].stats>>
    /\ \A n \in AllNames :
          (/\ Started /\ flags.script = "tasks" /\ flags.shouldResume
           /\ g.loaded # <<>>
           /\ Includes(g.loaded[1].completedModels, n)
           /\ MapHas(g.loaded[1].modelStats, n)
           /\ MapGet(g.loaded[1].modelStats, n).errors > 0)
          => /\ ~Includes(g.invoked, n)
             /\ ~Includes(modelsToProcess, n)
             /\ g.io[n] = ZeroIo

\* a resumed run is over; it loaded a checkpoint in which model A is completed
\* with errors, and it processed model B only
C19_Witness ==
    /\ Started /\ flags.script = "tasks" /\ flags.shouldResume
    /\ g.loaded # <<>>
    /\ Includes(g.loaded[1].completedModels, "A")
    /\ MapHas(g.loaded[1].modelStats, "A")
    /\ MapGet(g.loaded[1].modelStats, "A").errors > 0
    /\ g.invoked = <<"B">>
    /\ pc = "exited" /\ ThisRun.exit = "ok"

(***************************************************************************)
(* generateReport on its own, called at line 740 with every progress        *)
(* object of the bounded sets below, under every --models filter.           *)
(***************************************************************************)
\* the statistics of a model that ended well and of one that ended in error
FoundStats ==
    [tasksFound |-> 2, tasksMigrated |-> 1, tasksSkipped |-> 1, errors |-> 0,
     skippedReasons |-> <<"no_interval">>]

FailedStats ==
    [tasksFound |-> 0, tasksMigrated |-> 0, tasksSkipped |-> 0, errors |-> 1,
     skippedReasons |-> <<"model_error">>]

\* modelStats with no entry, or one of the two above, for a name
StatsEntries(name) == {<<>>, <<<<name, FoundStats>>>>, <<<<name, FailedStats>>>>}

ReportCompleted == {<<>>, <<"A">>, <<"B">>, <<"A", "B">>, <<"B", "A">>, <<"X">>}

ReportCurrent == {<<>>, <<"A">>, <<"B">>, <<"X">>}

InitReport ==
    /\ src = E2EStores.src
    /\ dest = E2EStores.dest
    /\ file = NoFile
    /\ pc = "loop"
    /\ \E f \in Filters :
          /\ flags = [script |-> "tasks", isDryRun |-> FALSE, shouldResume |-> FALSE,
                      modelFilter |-> f, env |-> FullEnv]
          /\ modelsToProcess = WorkList(f)
          /\ mi = Len(WorkList(f)) + 1
          /\ \E c \in ReportCompleted, cur \in ReportCurrent,
                ea \in StatsEntries("A"), eb \in StatsEntries("B") :
                progress = [FreshProgress(Len(WorkList(f))) EXCEPT
                               !.completedModels = c,
                               !.currentModel = cur,
                               !.modelStats = ea \o eb]
    /\ fr = FreshFrame
    /\ budget = [failuresLeft |-> 0, crashesLeft |-> 0, runsLeft |-> 0]
    /\ g = FreshGhost(dest)
    /\ rt = RtIdle

SpecReport == InitReport /\ [][Report]_vars

\* row i of the report is the one the claim describes for the i-th configured
\* name, computed from the progress object p
RowAsSpecified(row, p, i) ==
    LET name == MIGRATION_CONFIG_models[i]
        e == Entry(p.modelStats, name)
    IN  /\ row.model = name
        /\ row.tasksFound = (IF e = <<>> THEN 0 ELSE e[1].tasksFound)
        /\ row.tasksMigrated = (IF e = <<>> THEN 0 ELSE e[1].tasksMigrated)
        /\ row.tasksSkipped = (IF e = <<>> THEN 0 ELSE e[1].tasksSkipped)
        /\ row.errors = (IF e = <<>> THEN 0 ELSE e[1].errors)
        /\ (\E k \in 1..Len(p.completedModels) : p.completedModels[k] = name)
              => row.status = "Completed"
        /\ (/\ \A k \in 1..Len(p.completedModels) : p.completedModels[k] # name
            /\ p.currentModel = <<name>>)
              => row.status = "In Progress"
        /\ (/\ \A k \in 1..Len(p.completedModels) : p.completedModels[k] # name
            /\ p.currentModel # <<name>>)
              => row.status = "Pending"

(***************************************************************************)
(* C20.  generateReport is a function of the final progress state: once it  *)
(* has run, the report has exactly one row per name of the configured model *)
(* list, in configured order and whatever the --models filter, each with    *)
(* the counters stored in modelStats for that name (zeros without an entry) *)
(* and the status Completed when the name is in completedModels, else In    *)
(* Progress when it is currentModel, else Pending; and the step changes     *)
(* neither the progress object nor the destination.                         *)
(***************************************************************************)
C20_ReportFromProgress ==
    /\ [](pc = "report"
          => /\ Len(g.report) = Len(MIGRATION_CONFIG_models)
             /\ \A i \in 1..Len(MIGRATION_CONFIG_models) :
                   RowAsSpecified(g.report[i], progress, i))
    /\ [][(pc = "loop" /\ pc' = "report")
          => (progress' = progress /\ dest' = dest)]_vars

\* the report was written under --models=B for a progress object in which A is
\* completed with an entry in modelStats and B, the current model, has none
C20_Witness ==
    /\ pc = "report"
    /\ flags.modelFilter = <<"B">>
    /\ Includes(progress.completedModels, "A")
    /\ MapHas(progress.modelStats, "A")
    /\ ~MapHas(progress.modelStats, "B")
    /\ progress.currentModel = <<"B">>
    /\ Len(g.report) = 2
    /\ g.report[1].status = "Completed"
    /\ g.report[2].status = "In Progress"
    /\ g.report[2].tasksFound = 0

\* the destination rows the duplicate query of Step 6 finds for a source task
\* of the frame: the rows of the destination, as it was before the run, with
\* the task's mapped interval, description and type
ExistingFor(task) ==
    IF MapHas(fr.intervalMap, task.interval_id)
    THEN TaskRowsByKey(g.destAtLaunch, MapGet(fr.intervalMap, task.interval_id),
                       task.description, task.type)
    ELSE <<>>

(***************************************************************************)
(* C21.  A source task whose duplicate query found an existing destination  *)
(* task is mapped to that task's ID, counted once in tasksSkipped and not   *)
(* staged; and when the model has been processed by a live run its source   *)
(* parts are in the destination under the existing task.                    *)
(***************************************************************************)
C21_DuplicateIsMappedToExisting ==
    (Started /\ flags.script = "tasks" /\ pc = "ret")
    => /\ \A i \in 1..Len(fr.sourceTasks) :
             LET task == fr.sourceTasks[i]
             IN  Len(ExistingFor(task)) = 1
                 => /\ MapHas(fr.taskIdMap, task.id)
                    /\ MapGet(fr.taskIdMap, task.id) = ExistingFor(task)[1].id
                    /\ \A k \in 1..Len(fr.tasksToInsert) :
                          fr.tasksToInsert[k].sourceTaskId # task.id
                    /\ ~flags.isDryRun
                       => \A p \in Range(src.parts) :
                             p.task_id = task.id
                             => \E q \in Range(dest.parts) :
                                   /\ q.src = p.id /\ q.name = p.name
                                   /\ q.task_id = ExistingFor(task)[1].id
       /\ fr.stats.tasksSkipped =
             Cardinality({i \in 1..Len(fr.sourceTasks) :
                             Len(ExistingFor(fr.sourceTasks[i])) = 1})

\* a live run has processed model A, whose source task 1 was in the
\* destination already as row 101 and has a part, which is now under row 101
C21_Witness ==
    /\ Started /\ flags.script = "tasks" /\ pc = "ret" /\ ~flags.isDryRun
    /\ Len(fr.sourceTasks) > 0
    /\ Len(ExistingFor(fr.sourceTasks[1])) = 1
    /\ fr.stats.tasksSkipped >= 1
    /\ \E p \in Range(src.parts) : p.task_id = fr.sourceTasks[1].id
    /\ \E q \in Range(dest.parts) : q.task_id = 101

\* the rows the insert of the batch of staged task k created that carry the
\* composite key of staged task k
InsertedMatching(k) ==
    {r \in Range(dest.tasks) :
        /\ \E j \in 1..Len(fr.tasksToInsert) :
              /\ (j - 1) \div batchSize = (k - 1) \div batchSize
              /\ r.src = fr.tasksToInsert[j].sourceTaskId
        /\ r.id >= g.destAtLaunch.nextId
        /\ r.interval_id = fr.tasksToInsert[k].interval_id
        /\ r.description = fr.tasksToInsert[k].description
        /\ r.type = fr.tasksToInsert[k].type}

(***************************************************************************)
(* C22.  After the batch inserts of a live run, a staged source task has a  *)
(* destination ID in the task map exactly when one single inserted row of   *)
(* its batch carries its (interval ID, description, type); with no such row *)
(* or more than one, it has no mapping.                                     *)
(***************************************************************************)
C22_MappedOnlyOnUniqueMatch ==
    (Started /\ flags.script = "tasks" /\ ~flags.isDryRun /\ pc = "partsStart")
    => \A k \in 1..Len(fr.tasksToInsert) :
          MapHas(fr.taskIdMap, fr.tasksToInsert[k].sourceTaskId)
          <=> Cardinality(InsertedMatching(k)) = 1

(***************************************************************************)
(* Step 7 on its own: the insert loop of a live run, entered with up to     *)
(* MaxStaged staged tasks of model A under its two matched intervals, of    *)
(* every choice of descriptions and types, equal ones included.             *)
(***************************************************************************)
InitInsert ==
    \E n \in 0..MaxStaged :
    \E tk \in [1..n -> {1, 2} \X TaskKeys] :
       /\ src = [E2EStores.src EXCEPT
                    !.tasks = [i \in 1..n |->
                                 [id |-> i, interval_id |-> tk[i][1],
                                  description |-> tk[i][2][1],
                                  type |-> tk[i][2][2]]],
                    !.parts = <<>>]
       /\ dest = E2EStores.dest
       /\ file = NoFile
       /\ pc = "insertTasks"
       /\ flags = [script |-> "tasks", isDryRun |-> FALSE, shouldResume |-> FALSE,
                   modelFilter |-> NoFilter, env |-> FullEnv]
       /\ modelsToProcess = MIGRATION_CONFIG_models
       /\ mi = 1
       /\ progress = [FreshProgress(2) EXCEPT !.currentModel = <<"A">>]
       /\ fr = [FreshFrame EXCEPT
                   !.sourceModel = ModelRows(src, "A"),
                   !.destModel = ModelRows(dest, "A"),
                   !.sourceIntervals = IntervalRows(src, SrcModelId("A")),
                   !.destIntervals = IntervalRows(dest, DestModelId("A")),
                   !.intervalMap = <<<<1, 11>>, <<2, 12>>>>,
                   !.sourceTasks = src.tasks,
                   !.stats.tasksFound = n,
                   !.ti = n + 1,
                   !.tasksToInsert =
                       [i \in 1..n |-> StagedTask(src.tasks[i], 10 + tk[i][1])]]
       /\ budget = [failuresLeft |-> MaxBatchFailures, crashesLeft |-> 0,
                    runsLeft |-> 0]
       /\ g = [FreshGhost(dest) EXCEPT !.invoked = <<"A">>]
       /\ rt = RtIdle

SpecInsert == InitInsert /\ [][InsertTasks]_vars

\* the staged tasks of a batch have pairwise distinct composite keys
DistinctKeys(batch) ==
    \A i, j \in 1..Len(batch) :
        (/\ batch[i].interval_id = batch[j].interval_id
         /\ batch[i].description = batch[j].description
         /\ batch[i].type = batch[j].type) => i = j

\* batch b (counted from 0) of the insert loop of Step 7
TaskBatch(b) == Slice(fr.tasksToInsert, b * batchSize, batchSize)

\* the insert of batch b of Step 7 has succeeded: its rows are in the destination
BatchInserted(b) ==
    \A j \in 1..Len(TaskBatch(b)) :
       \E r \in Range(dest.tasks) : r.src = TaskBatch(b)[j].sourceTaskId

(***************************************************************************)
(* C23.  The task map recorded after a batch insert does not depend on the  *)
(* order of the rows of the answer: for staged tasks with pairwise distinct *)
(* (interval ID, description, type), every permutation of the answer gives  *)
(* the same map, which sends each source task to the row that carries its   *)
(* key; and after each successful insert of the loop, whatever order the    *)
(* backend chose, each source task of the batch is mapped to the row that   *)
(* was created from it.                                                     *)
(***************************************************************************)
C23_MappingIgnoresRowOrder ==
    pc \in {"insertTasks", "partsStart"}
    => /\ \A n \in 1..Len(fr.tasksToInsert) :
             LET batch == Slice(fr.tasksToInsert, 0, n)
                 rows == NewTaskRows(dest, batch)
             IN  DistinctKeys(batch)
                 => \A perm \in Permutations(1..n) :
                       LET m == MapInserted(<<>>, batch, Reordered(rows, perm))
                       IN  /\ m = MapInserted(<<>>, batch, rows)
                           /\ \A j \in 1..n :
                                 /\ MapHas(m, batch[j].sourceTaskId)
                                 /\ MapGet(m, batch[j].sourceTaskId) = rows[j].id
       /\ \A b \in 0..(MaxStaged \div batchSize) :
             (/\ (b + 1) * batchSize <= fr.bi
              /\ Len(TaskBatch(b)) > 0
              /\ DistinctKeys(TaskBatch(b))
              /\ BatchInserted(b))
             => \A j \in 1..Len(TaskBatch(b)) :
                   LET st == TaskBatch(b)[j]
                   IN  /\ MapHas(fr.taskIdMap, st.sourceTaskId)
                       /\ \E r \in Range(dest.tasks) :
                             /\ r.id = MapGet(fr.taskIdMap, st.sourceTaskId)
                             /\ r.src = st.sourceTaskId
                             /\ r.interval_id = st.interval_id
                             /\ r.description = st.description
                             /\ r.type = st.type

\* two batches of two staged tasks with distinct keys have been inserted and
\* the four source tasks are mapped
C23_Witness ==
    /\ pc = "insertTasks"
    /\ Len(fr.tasksToInsert) = 4
    /\ DistinctKeys(fr.tasksToInsert)
    /\ fr.bi = 4
    /\ BatchInserted(0) /\ BatchInserted(1)
    /\ Len(fr.taskIdMap) = 4

\* the batches of Step 7 the loop has been through
BatchesDone ==
    {b \in 0..(MaxStaged \div batchSize) :
        b * batchSize < fr.bi /\ Len(TaskBatch(b)) > 0}

(***************************************************************************)
(* C24.  Failed task batches: each batch whose insert failed adds exactly   *)
(* one error and nothing to tasksMigrated, none of its tasks is in the task *)
(* map, and the loop still issues the insert of every later batch;          *)
(* tasksMigrated is the total size of the batches whose insert succeeded.   *)
(***************************************************************************)
C24_FailedTaskBatch ==
    pc \in {"insertTasks", "partsStart"}
    => /\ fr.stats.errors =
             Cardinality({b \in BatchesDone : ~BatchInserted(b)})
       /\ fr.stats.tasksMigrated =
             Cardinality({k \in 1..Len(fr.tasksToInsert) :
                             /\ (k - 1) \div batchSize \in BatchesDone
                             /\ BatchInserted((k - 1) \div batchSize)})
       /\ \A b \in BatchesDone :
             ~BatchInserted(b)
             => \A j \in 1..Len(TaskBatch(b)) :
                   ~MapHas(fr.taskIdMap, TaskBatch(b)[j].sourceTaskId)
       /\ g.io["A"].destWrites = Cardinality(BatchesDone)
       /\ pc = "partsStart"
          => \A k \in 1..Len(fr.tasksToInsert) :
                (k - 1) \div batchSize \in BatchesDone

\* of two batches the first has failed and the second has been inserted
C24_Witness ==
    /\ pc = "partsStart"
    /\ Len(fr.tasksToInsert) = 4
    /\ ~BatchInserted(0) /\ BatchInserted(1)
    /\ fr.stats.errors = 1
    /\ fr.stats.tasksMigrated = 2
    /\ Len(g.failed) = 1

(***************************************************************************)
(* The mapping, the staging and the insert of the parts on their own, in a  *)
(* live run of either script: model A has the source tasks 1 and 2 and up   *)
(* to MaxStaged source parts under them, of every choice of names, equal    *)
(* ones included.  The two tasks have one destination task ("same": they    *)
(* share their key), a destination task each ("both"), or only task 1 has   *)
(* one ("one").  migrate-maintenance-tasks is entered at line 529 with the  *)
(* task map of these cases, migrate-task-parts at line 240 before it maps   *)
(* the tasks.                                                               *)
(***************************************************************************)
InitParts ==
    \E sc \in Scripts, n \in 1..MaxStaged, case \in {"same", "both", "one"} :
    \E pk \in [1..n -> {1, 2} \X PartNames] :
       /\ src = [E2EStores.src EXCEPT
                    !.tasks = <<[id |-> 1, interval_id |-> 1,
                                 description |-> "d1", type |-> "t1"],
                                [id |-> 2, interval_id |-> 1,
                                 description |-> IF case = "same" THEN "d1" ELSE "d2",
                                 type |-> "t1"]>>,
                    !.parts = [j \in 1..n |->
                                 [id |-> j, task_id |-> pk[j][1],
                                  name |-> pk[j][2]]]]
       /\ dest = [E2EStores.dest EXCEPT
                     !.tasks = <<[id |-> 101, interval_id |-> 11,
                                  description |-> "d1", type |-> "t1", src |-> 0]>>
                               \o (IF case = "both"
                                   THEN <<[id |-> 102, interval_id |-> 11,
                                           description |-> "d2", type |-> "t1",
                                           src |-> 0]>>
                                   ELSE <<>>)]
       /\ file = NoFile
       /\ pc = IF sc = "tasks" THEN "partsStart" ELSE "p_mapTasks"
       /\ flags = [script |-> sc, isDryRun |-> FALSE, shouldResume |-> FALSE,
                   modelFilter |-> NoFilter, env |-> FullEnv]
       /\ modelsToProcess = MIGRATION_CONFIG_models
       /\ mi = 1
       /\ progress = IF sc = "tasks"
                     THEN [FreshProgress(2) EXCEPT !.currentModel = <<"A">>]
                     ELSE ZeroTotals
       /\ LET common == [FreshFrame EXCEPT
                            !.sourceModel = ModelRows(src, "A"),
                            !.destModel = ModelRows(dest, "A"),
                            !.sourceIntervals = IntervalRows(src, SrcModelId("A")),
                            !.destIntervals = IntervalRows(dest, DestModelId("A")),
                            !.intervalMap = <<<<1, 11>>, <<2, 12>>>>,
                            !.sourceTasks = src.tasks,
                            !.ti = 1]
          IN  fr = IF sc = "tasks"
                   THEN [common EXCEPT
                            !.stats.tasksFound = 2,
                            !.stats.tasksSkipped = IF case = "one" THEN 1 ELSE 2,
                            !.stats.errors = IF case = "one" THEN 1 ELSE 0,
                            !.ti = 3,
                            !.tasksToInsert =
                                IF case = "one"
                                THEN <<StagedTask(src.tasks[2], 11)>> ELSE <<>>,
                            !.bi = IF case = "one" THEN batchSize ELSE 0,
                            !.taskIdMap =
                                <<<<1, 101>>>>
                                \o (IF case = "same" THEN <<<<2, 101>>>>
                                    ELSE IF case = "both" THEN <<<<2, 102>>>>
                                    ELSE <<>>)]
                   ELSE [common EXCEPT
                            !.allParts = src.parts,
                            !.pstats.partsFound = n]
       /\ budget = [failuresLeft |-> MaxBatchFailures, crashesLeft |-> 0,
                    runsLeft |-> 0]
       /\ g = [FreshGhost(dest) EXCEPT !.invoked = <<"A">>]
       /\ rt = RtIdle

NextParts ==
    \/ BeginParts \/ GetSourceTaskParts \/ BuildParts \/ InsertParts
    \/ PMapTask \/ PStagePart \/ PInsertParts

SpecParts == InitParts /\ [][NextParts]_vars

\* the list the insert loop of the running script goes through
PartsForInsert ==
    IF flags.script = "tasks" THEN fr.partsToInsert ELSE fr.partsToInsertFiltered

\* the number of batches of that list
PartBatches == (Len(PartsForInsert) + batchSize - 1) \div batchSize

\* the inserts of the model that failed
FailedInserts ==
    {i \in 1..Len(g.failed) : g.failed[i].kind = "destWrites"}

(***************************************************************************)
(* C25.  Failed parts batches: once the parts insert loop of a model has    *)
(* been entered and the model is over, the insert of every batch of the     *)
(* staged parts has been issued, whether or not an earlier batch failed,    *)
(* and each failed batch has added one to the error counter; in             *)
(* migrate-maintenance-tasks and in migrate-task-parts.                     *)
(***************************************************************************)
C25_FailedPartsBatchGoesOn ==
    (pc \in {"ret", "p_ret"} /\ g.io["A"].destWrites >= 1)
    => /\ g.io["A"].destWrites = PartBatches
       /\ Cardinality(FailedInserts) >= 1
          => (IF flags.script = "tasks" THEN fr.stats.errors
              ELSE fr.pstats.errors) >= Cardinality(FailedInserts)

(***************************************************************************)
(* C26.  Parts are deduplicated per destination task: among the parts a     *)
(* live run stages and inserts for a model, no two have the same            *)
(* (destination task ID, name).                                             *)
(***************************************************************************)
C26_PartsDeduplicated ==
    /\ \A i, j \in 1..Len(PartsForInsert) :
          (/\ PartsForInsert[i].task_id = PartsForInsert[j].task_id
           /\ PartsForInsert[i].name = PartsForInsert[j].name) => i = j
    /\ \A i, j \in 1..Len(dest.parts) :
          (/\ dest.parts[i].task_id = dest.parts[j].task_id
           /\ dest.parts[i].name = dest.parts[j].name) => i = j

(***************************************************************************)
(* C27.  In the parts migration a loaded source part whose source task has  *)
(* no destination task in the task map is never written to the destination, *)
(* and once migrate-task-parts has rewritten the loaded parts it has added  *)
(* exactly one to partsSkipped for each such part (the other skips are the  *)
(* staged parts its duplicate check found in the destination).              *)
(***************************************************************************)
C27_UnmappedPartsAreSkipped ==
    /\ \A q \in Range(dest.parts) :
          q.src # 0 =>
             \E p \in Range(src.parts) :
                /\ p.id = q.src
                /\ MapHas(fr.taskIdMap, p.task_id)
                /\ q.task_id = MapGet(fr.taskIdMap, p.task_id)
    /\ (/\ flags.script = "parts"
        /\ pc \in {"p_stage", "p_insert", "p_ret"}
        /\ fr.ti > Len(fr.sourceTasks))
       => fr.pstats.partsSkipped =
             Cardinality({i \in 1..Len(fr.allParts) :
                             ~MapHas(fr.taskIdMap, fr.allParts[i].task_id)})
             + (fr.pi - 1 - Len(fr.partsToInsertFiltered))

\* migrate-task-parts has loaded two parts of task 2, which has no
\* destination task, and a part of task 1, which it has inserted
C27_Witness ==
    /\ flags.script = "parts" /\ pc = "p_ret"
    /\ fr.ti > Len(fr.sourceTasks)
    /\ ~MapHas(fr.taskIdMap, 2)
    /\ Cardinality({i \in 1..Len(fr.allParts) : fr.allParts[i].task_id = 2}) = 2
    /\ fr.pstats.partsSkipped = 2
    /\ fr.pstats.partsMigrated = 1
    /\ Len(dest.parts) = 1

\* the source intervals of the model in the frame that have no destination
\* interval of the same value
GapIntervals ==
    {si \in Range(fr.sourceIntervals) :
        \A di \in Range(fr.destIntervals) : di.interval_value # si.interval_value}

(***************************************************************************)
(* C28.  A source interval with no destination counterpart is a non-fatal   *)
(* gap: once the interval map of a model is built, the skip reasons hold    *)
(* one warning for the gaps and the error counter is untouched; the tasks   *)
(* under such an interval are neither loaded nor staged, they and their     *)
(* parts are never written to the destination; and when the model is over,  *)
(* every task under a matched interval is in the destination (live run) or  *)
(* staged or mapped to its duplicate (dry run).                             *)
(***************************************************************************)
C28_MatchingGapIsNotFatal ==
    (/\ Started /\ flags.script = "tasks" /\ InModel
     /\ fr.destIntervals # <<>> /\ GapIntervals # {})
    => /\ Cardinality({i \in 1..Len(fr.stats.skippedReasons) :
                          fr.stats.skippedReasons[i] = "unmatched_intervals"}) = 1
       /\ fr.stats.errors = 0
       /\ \A si \in GapIntervals :
             /\ ~MapHas(fr.intervalMap, si.id)
             /\ \A t \in Range(src.tasks) :
                   t.interval_id = si.id
                   => /\ t \notin Range(fr.sourceTasks)
                      /\ \A k \in 1..Len(fr.tasksToInsert) :
                            fr.tasksToInsert[k].sourceTaskId # t.id
                      /\ ~MapHas(fr.taskIdMap, t.id)
                      /\ \A r \in Range(dest.tasks) : r.src # t.id
                      /\ \A p \in Range(src.parts) :
                            p.task_id = t.id
                            => /\ p \notin Range(fr.allParts)
                               /\ \A q \in Range(dest.parts) : q.src # p.id
       /\ pc = "ret"
          => \A t \in Range(src.tasks) :
                MapHas(fr.intervalMap, t.interval_id)
                => IF flags.isDryRun
                   THEN \/ MapHas(fr.taskIdMap, t.id)
                        \/ \E k \in 1..Len(fr.tasksToInsert) :
                              fr.tasksToInsert[k].sourceTaskId = t.id
                   ELSE \E r \in Range(dest.tasks) :
                           /\ r.interval_id = MapGet(fr.intervalMap, t.interval_id)
                           /\ r.description = t.description
                           /\ r.type = t.type

\* a live run has processed model A: its interval 1 has no destination
\* counterpart and a task, its interval 2 is matched and its task is in the
\* destination under interval 12
C28_Witness ==
    /\ Started /\ flags.script = "tasks" /\ ~flags.isDryRun /\ pc = "ret"
    /\ fr.destIntervals # <<>>
    /\ \E si \in GapIntervals : \E t \in Range(src.tasks) : t.interval_id = si.id
    /\ \E t \in Range(src.tasks) :
          /\ MapHas(fr.intervalMap, t.interval_id)
          /\ \E r \in Range(dest.tasks) : r.src = t.id /\ r.interval_id = 12
    /\ fr.stats.tasksMigrated = 1

(***************************************************************************)
(* One run of either script, without failures, over stores in which model   *)
(* A or model B is missing on one side or on none; model A has no task, a   *)
(* task, or a task with a part.                                             *)
(***************************************************************************)
InitResolve ==
    /\ \E missing \in {"none", "destA", "srcA", "destB"}, pre \in BOOLEAN,
          nT \in 0..1, nP \in 0..1 :
          LET st == Stores(missing, 300, 100, 300,
                           [i \in 1..nT |-> <<1, <<"d1", "t1">>>>],
                           [j \in 1..(nT * nP) |-> <<1, "n1">>], pre)
          IN  src = st.src /\ dest = st.dest
    /\ InitProcess(0, 0, 1)
    /\ rt = RtIdle

SpecResolve == InitResolve /\ [][NextData]_vars

(***************************************************************************)
(* C29.  The model is looked up in the destination first and in the source  *)
(* second: for a model that is not in the destination no source look-up is  *)
(* made, one error is counted and the one skip reason is the                *)
(* destination-missing one; for a model that is in the destination and not  *)
(* in the source one error is counted and the one skip reason is the        *)
(* source-missing one; in migrate-maintenance-tasks and migrate-task-parts. *)
(***************************************************************************)
C29_DestinationThenSource ==
    Started
    => \A k \in 1..Len(g.returned) :
          LET n == g.returned[k].model
              st == g.returned[k].stats
          IN  /\ ModelRows(dest, n) = <<>>
                 => /\ g.io[n].srcReads = 0
                    /\ st.errors = 1
                    /\ ThisRun.script = "tasks"
                       => st.skippedReasons = <<"dest_missing">>
              /\ (ModelRows(dest, n) # <<>> /\ ModelRows(src, n) = <<>>)
                 => /\ g.io[n].destReads = 1
                    /\ st.errors = 1
                    /\ ThisRun.script = "tasks"
                       => st.skippedReasons = <<"src_missing">>

(***************************************************************************)
(* C30.  Processing is sequential and ordered.  The models handed to        *)
(* migrateModel are the work list in its order; while model i is being      *)
(* processed or saved no remote call has been issued for a later model, and *)
(* the checkpoint with every earlier model is on disk; inside a model the   *)
(* inserts issued so far are exactly the batches the loops have been        *)
(* through, one after the other, and no parts read or parts insert is       *)
(* issued before the last task batch has returned.                          *)
(***************************************************************************)
C30_SequentialAndOrdered ==
    (Started /\ flags.script = "tasks" /\ pc \notin {"exited", "env", "main"})
    => /\ Len(g.invoked) <= Len(modelsToProcess)
       /\ \A i \in 1..Len(g.invoked) : g.invoked[i] = modelsToProcess[i]
       /\ Len(g.invoked) = (IF InModel \/ pc = "saving" THEN mi ELSE mi - 1)
       /\ \A j \in 1..Len(modelsToProcess) :
             /\ j > Len(g.invoked) => g.io[modelsToProcess[j]] = ZeroIo
             /\ (j < mi /\ pc # "saving")
                => /\ file.state = "complete"
                   /\ Includes(Checkpoint[1].completedModels, modelsToProcess[j])
       /\ (InModel /\ ~flags.isDryRun)
          => LET taskBatches == (Len(fr.tasksToInsert) + batchSize - 1) \div batchSize
                 writes == g.io[modelName].destWrites
             IN  /\ pc \in {"validate", "srcModel", "srcIntervals", "destIntervals",
                             "srcTasks", "dupCheck"}
                     => writes = 0 /\ fr.allParts = <<>> /\ fr.ci = 0
                 /\ pc = "insertTasks"
                     => /\ writes = fr.bi \div batchSize
                        /\ writes <= taskBatches
                        /\ fr.allParts = <<>> /\ fr.ci = 0
                        /\ \A q \in Range(dest.parts) :
                              \/ q.src = 0
                              \/ \E r \in Range(dest.tasks) :
                                    r.id = q.task_id /\ r.interval_id = 13
                 /\ pc \in {"partsStart", "srcParts", "partsFetched"}
                     => writes = taskBatches
                 /\ pc = "insertParts"
                     => writes = taskBatches + fr.pbi \div batchSize

\* model B is being processed after model A, whose three task batches and
\* one parts batch were inserted and whose checkpoint is on disk
C30_Witness ==
    /\ Started /\ flags.script = "tasks" /\ ~flags.isDryRun
    /\ pc = "validate" /\ mi = 2
    /\ g.invoked = <<"A", "B">>
    /\ g.io["A"].destWrites = 4
    /\ g.io["B"] = ZeroIo
    /\ file.state = "complete"

(***************************************************************************)
(* C31.  loadProgress never throws: with --resume and a checkpoint file     *)
(* that is absent or cannot be parsed, main gets the no-checkpoint result,  *)
(* starts from a fresh progress object (empty completedModels, zero         *)
(* counters, no modelStats) and processes the whole work list.              *)
(***************************************************************************)
C31_ResumeWithoutCheckpoint ==
    (/\ Started /\ flags.script = "tasks" /\ flags.shouldResume
     /\ g.fileAtLaunch.state # "complete"
     /\ pc \notin {"env", "main"})
    => /\ g.loaded = <<>>
       /\ pc # "exited"
          => /\ modelsToProcess = WorkList(flags.modelFilter)
             /\ \A i \in 1..Len(g.invoked) : g.invoked[i] = modelsToProcess[i]
             /\ (pc = "loop" /\ mi = 1)
                => progress = [completedModels |-> <<>>, currentModel |-> <<>>,
                               stats |-> [totalModels |-> Len(modelsToProcess),
                                          totalTasksFound |-> 0,
                                          totalTasksMigrated |-> 0,
                                          totalTasksSkipped |-> 0,
                                          totalErrors |-> 0],
                               modelStats |-> <<>>, errors |-> <<>>]
       /\ (pc = "exited" /\ ThisRun.exit = "ok")
          => g.invoked = WorkList(flags.modelFilter)

\* a run started with --resume on a checkpoint file that a killed run left
\* cut off has processed both configured models and is over
C31_Witness ==
    /\ Started /\ flags.script = "tasks" /\ flags.shouldResume
    /\ g.fileAtLaunch.state = "truncated"
    /\ pc = "exited" /\ ThisRun.exit = "ok"
    /\ g.invoked = <<"A", "B">>

(***************************************************************************)
(* One run of either script with remote failures and without kills, over a  *)
(* model A with one task and one part; the task is in the destination       *)
(* already or not.  The process is single-threaded and every step is        *)
(* awaited, so a step that can be taken is taken: weak fairness of the next *)
(* step.                                                                    *)
(***************************************************************************)
InitLive ==
    /\ \E pre \in BOOLEAN :
          LET st == Stores("none", 300, 100, 300, <<<<1, <<"d1", "t1">>>>>>,
                           <<<<1, "n1">>>>, pre)
          IN  src = st.src /\ dest = st.dest
    /\ InitProcess(MaxFailures, 0, 1)
    /\ rt = RtIdle

SpecLive == InitLive /\ [][NextData]_vars /\ WF_vars(NextData)

(***************************************************************************)
(* C32.  A run that has passed the startup validation terminates: whatever  *)
(* remote calls fail, main is eventually over with exit code 0, and for     *)
(* migrate-maintenance-tasks the report has been generated by then; the     *)
(* exit code is non-zero only when the startup validation failed.           *)
(***************************************************************************)
C32_RunsTerminateWithExitZero ==
    /\ (Started /\ pc = "main")
          ~> (IF Started
              THEN /\ pc = "exited" /\ ThisRun.exit = "ok"
                   /\ ThisRun.exitCode = <<0>>
                   /\ ThisRun.script = "tasks"
                      => Len(g.report) = Len(MIGRATION_CONFIG_models)
              ELSE FALSE)
    /\ [](IF Started
          THEN (ThisRun.exitCode # <<>> /\ ThisRun.exitCode # <<0>>)
               => /\ ~EnvValid(ThisRun.env)
                  /\ ThisRun.exit = "config_error"
          ELSE TRUE)

\* a run in which a remote call failed and a model ended with an error is
\* over with exit code 0
C32_Witness ==
    /\ Started /\ pc = "exited"
    /\ ThisRun.script = "tasks"
    /\ ThisRun.exit = "ok" /\ ThisRun.exitCode = <<0>>
    /\ Len(g.failed) = 1
    /\ \E k \in 1..Len(g.returned) : g.returned[k].stats.errors = 1
    /\ Len(g.report) = Len(MIGRATION_CONFIG_models)

(***************************************************************************)
(* One run of either script with up to MaxBatchFailures remote failures,    *)
(* over a model A with three tasks, which are two batches, and one part;    *)
(* the first task is in the destination already or not.                     *)
(***************************************************************************)
InitAccount ==
    /\ \E pre \in BOOLEAN :
          LET st == Stores("none", 300, 100, 300,
                           <<<<1, <<"d1", "t1">>>>, <<1, <<"d2", "t1">>>>,
                             <<2, <<"d1", "t2">>>>>>,
                           <<<<1, "n1">>>>, pre)
          IN  src = st.src /\ dest = st.dest
    /\ InitProcess(MaxBatchFailures, 0, 1)
    /\ rt = RtIdle

SpecAccount == InitAccount /\ [][NextData]_vars

(***************************************************************************)
(* C33.  Task accounting of one model: when migrateModel returns, dry-run   *)
(* or live, tasksFound = tasksSkipped + tasksMigrated + the tasks whose     *)
(* duplicate check threw + the tasks of the batches whose insert failed;    *)
(* so tasksMigrated + tasksSkipped <= tasksFound, with equality when no     *)
(* remote call failed for the model.  The duplicate checks that threw are   *)
(* those the run has seen fail by an exception for the model; a staged task *)
(* is in a failed batch when the run has left no row made from it.          *)
(***************************************************************************)
C33_TaskAccounting ==
    (Started /\ flags.script = "tasks" /\ pc = "ret")
    => LET st == fr.stats
           threw == {i \in 1..Len(g.failed) :
                        /\ g.failed[i].model = modelName
                        /\ g.failed[i].step = "dupCheck"
                        /\ g.failed[i].how = "throw"}
           lost == IF flags.isDryRun THEN {}
                   ELSE {j \in 1..Len(fr.tasksToInsert) :
                           ~\E r \in Range(dest.tasks) \ Range(g.destAtLaunch.tasks) :
                               r.src = fr.tasksToInsert[j].sourceTaskId}
           failures == {i \in 1..Len(g.failed) : g.failed[i].model = modelName}
       IN  /\ st.tasksFound = st.tasksSkipped + st.tasksMigrated
                                 + Cardinality(threw) + Cardinality(lost)
           /\ st.tasksMigrated + st.tasksSkipped <= st.tasksFound
           /\ failures = {} => st.tasksMigrated + st.tasksSkipped = st.tasksFound

\* a live run returns from a model with three tasks of which one was skipped
\* as a duplicate and the others were lost with their batch
C33_Witness ==
    /\ Started /\ flags.script = "tasks" /\ pc = "ret" /\ ~flags.isDryRun
    /\ fr.stats.tasksFound = 3
    /\ fr.stats.tasksSkipped = 1
    /\ fr.stats.tasksMigrated = 0
    /\ Len(fr.tasksToInsert) = 2
    /\ \E i \in 1..Len(g.failed) : g.failed[i].step = "insertTasks"

\* a run returns from a model with a task whose duplicate check threw
C33_WitnessThrown ==
    /\ Started /\ flags.script = "tasks" /\ pc = "ret"
    /\ fr.stats.tasksFound = 3
    /\ fr.stats.tasksSkipped + fr.stats.tasksMigrated = 2
    /\ \E i \in 1..Len(g.failed) :
          g.failed[i].step = "dupCheck" /\ g.failed[i].how = "throw"

(***************************************************************************)
(* C34.  A task is staged only after a duplicate query that completed       *)
(* without an error and returned no row: a duplicate check whose call       *)
(* failed, by an exception or by an error in the response, leaves the       *)
(* staged tasks as they were, so that the task is not inserted.             *)
(***************************************************************************)
C34_StagedOnlyAfterCleanCheck ==
    [][(pc = "dupCheck" /\ g'.failed # g.failed)
          => fr'.tasksToInsert = fr.tasksToInsert]_vars

(***************************************************************************)
(* C35.  With --resume a model is skipped only if an earlier live run       *)
(* processed it: when a live run started with --resume leaves a model of    *)
(* its list out because the checkpoint names it as completed, a live run of *)
(* migrate-maintenance-tasks has been started before.                       *)
(***************************************************************************)
C35_ResumeSkipsOnlyLiveWork ==
    (/\ Started /\ flags.script = "tasks" /\ pc = "loop"
     /\ ~flags.isDryRun /\ flags.shouldResume /\ g.loaded # <<>>)
    => \A n \in Range(WorkList(flags.modelFilter)) :
          Includes(g.loaded[1].completedModels, n)
          => \E k \in 1..(Len(g.history) - 1) :
                /\ g.history[k].script = "tasks"
                /\ ~g.history[k].isDryRun

\* the sum of one counter over the first n entries of modelStats
RECURSIVE SumFound(_, _), SumMigrated(_, _), SumSkipped(_, _), SumErrors(_, _)
SumFound(m, n) == IF n = 0 THEN 0 ELSE SumFound(m, n - 1) + m[n][2].tasksFound

SumMigrated(m, n) ==
    IF n = 0 THEN 0 ELSE SumMigrated(m, n - 1) + m[n][2].tasksMigrated

SumSkipped(m, n) ==
    IF n = 0 THEN 0 ELSE SumSkipped(m, n - 1) + m[n][2].tasksSkipped

SumErrors(m, n) == IF n = 0 THEN 0 ELSE SumErrors(m, n - 1) + m[n][2].errors

(***************************************************************************)
(* C36.  After every successful save of the checkpoint, in fresh and in     *)
(* resumed runs (no work list of the runs has a name twice), each           *)
(* cumulative counter is the sum of the per-model counter over the entries  *)
(* of modelStats, and completedModels holds the keys of modelStats, each    *)
(* once.                                                                    *)
(***************************************************************************)
C36_TotalsAreSums ==
    file.state = "complete"
    => LET p == file.content[1]
           m == p.modelStats
           c == p.completedModels
       IN  /\ p.stats.totalTasksFound = SumFound(m, Len(m))
           /\ p.stats.totalTasksMigrated = SumMigrated(m, Len(m))
           /\ p.stats.totalTasksSkipped = SumSkipped(m, Len(m))
           /\ p.stats.totalErrors = SumErrors(m, Len(m))
           /\ Range(c) = Range(MapKeys(m))
           /\ \A i, j \in 1..Len(c) : c[i] = c[j] => i = j
           /\ \A i, j \in 1..Len(m) : m[i][1] = m[j][1] => i = j

\* a resumed run has saved a checkpoint with the model of the earlier run and
\* its own, with a task found and an error counted
C36_Witness ==
    /\ Started /\ pc = "loop" /\ flags.shouldResume /\ g.loaded # <<>>
    /\ file.state = "complete"
    /\ Len(file.content[1].modelStats) = 2
    /\ Len(g.returned) = 1
    /\ file.content[1].stats.totalTasksFound >= 1
    /\ file.content[1].stats.totalErrors = 1

(***************************************************************************)
(* C37.  Without --resume an existing checkpoint has no effect: the work    *)
(* list is the whole list asked for, whatever the file holds, and from the  *)
(* first save on the file describes the models processed by this run only:  *)
(* completedModels are the models done so far, modelStats holds what        *)
(* migrateModel returned for them, the counters are the sums over them and  *)
(* the errors are theirs.                                                   *)
(***************************************************************************)
C37_FreshRunIgnoresCheckpoint ==
    (/\ Started /\ flags.script = "tasks" /\ ~flags.shouldResume
     /\ pc \notin {"env", "main", "exited"})
    => /\ g.loaded = <<>>
       /\ modelsToProcess = WorkList(flags.modelFilter)
       /\ (pc = "loop" /\ mi > 1)
          => /\ file.state = "complete"
             /\ LET p == file.content[1]
                    m == p.modelStats
                IN  /\ p.completedModels = SubSeq(modelsToProcess, 1, mi - 1)
                    /\ m = [i \in 1..Len(g.returned) |->
                               <<g.returned[i].model, g.returned[i].stats>>]
                    /\ MapKeys(m) = p.completedModels
                    /\ p.stats.totalModels = Len(modelsToProcess)
                    /\ p.stats.totalTasksFound = SumFound(m, Len(m))
                    /\ p.stats.totalTasksMigrated = SumMigrated(m, Len(m))
                    /\ p.stats.totalTasksSkipped = SumSkipped(m, Len(m))
                    /\ p.stats.totalErrors = SumErrors(m, Len(m))
                    /\ \A i \in 1..Len(p.errors) :
                          /\ Includes(p.completedModels, p.errors[i].model)
                          /\ MapGet(m, p.errors[i].model).errors > 0

\* a run without --resume has made its first save over the checkpoint of an
\* earlier run that named a model as completed with a task found
C37_Witness ==
    /\ Started /\ flags.script = "tasks" /\ ~flags.shouldResume
    /\ pc = "loop" /\ mi = 2
    /\ g.fileAtLaunch.state = "complete"
    /\ g.fileAtLaunch.content[1].completedModels # <<>>
    /\ g.fileAtLaunch.content[1].stats.totalTasksFound >= 1
    /\ file.state = "complete"
    /\ file.content[1].completedModels = <<modelsToProcess[1]>>

\* the source tasks under the source intervals that the interval map of the
\* model in hand has an entry for
TasksUnderMatched ==
    {i \in 1..Len(src.tasks) : MapHas(fr.intervalMap, src.tasks[i].interval_id)}

\* the source tasks of the model in hand that are under an interval without
\* an entry in the interval map
TasksUnderUnmatched ==
    {i \in 1..Len(src.tasks) :
        /\ ~MapHas(fr.intervalMap, src.tasks[i].interval_id)
        /\ \E k \in 1..Len(fr.sourceIntervals) :
              fr.sourceIntervals[k].id = src.tasks[i].interval_id}

(***************************************************************************)
(* C38.  Every source task that was loaded has an entry in the interval     *)
(* map, so that no task is skipped for an interval that is not matched; the *)
(* tasks under unmatched intervals are not loaded and not in tasksFound,    *)
(* which is the number of source tasks under the matched intervals.         *)
(***************************************************************************)
C38_LoadedTasksAreMatched ==
    (Started /\ flags.script = "tasks")
    => /\ \A i \in 1..Len(fr.sourceTasks) :
             MapHas(fr.intervalMap, fr.sourceTasks[i].interval_id)
       /\ ~Includes(fr.stats.skippedReasons, "interval_not_matched")
       /\ \A k \in 1..Len(g.returned) :
             ~Includes(g.returned[k].stats.skippedReasons, "interval_not_matched")
       /\ pc \in {"dupCheck", "insertTasks", "partsStart"}
          => /\ fr.stats.tasksFound = Cardinality(TasksUnderMatched)
             /\ fr.stats.tasksFound = Len(fr.sourceTasks)

\* a model with a task under a matched interval and a task under an
\* unmatched one has gone through the duplicate checks: one task was found
C38_Witness ==
    /\ Started /\ flags.script = "tasks" /\ pc = "insertTasks"
    /\ TasksUnderUnmatched # {}
    /\ fr.stats.tasksFound = 1
    /\ fr.stats.tasksSkipped = 0
    /\ Len(fr.tasksToInsert) = 1

(***************************************************************************)
(* The chunked fetch of Step 5 of migrate-task-parts, one request at a      *)
(* time: fn of lines 179-193 is invoked by retryWithBackoff, and a chunk    *)
(* whose request fails, by an exception or by an error in the response      *)
(* (line 190), makes the invocation throw.                                  *)
(***************************************************************************)
\* a fetch whose rows outlive the invocation that got them
PAttemptStartKeepsRows(f) == [f EXCEPT !.ci = 0]

\* lines 179-182: fn is invoked; allParts is a new array and i is 0
PAttemptStart(f) == [f EXCEPT !.allParts = <<>>, !.ci = 0]

\* lines 182-191: the request for the next chunk of the invocation in hand;
\* lines 86-96 of retryWithBackoff when it fails; lines 195-208 when the last
\* chunk has answered
PFetchChunk ==
    /\ pc = "p_srcParts"
    /\ rt.pc = "call"
    /\ LET chunks == ChunksFrom(Ids(fr.sourceTasks), 0)
           k == fr.ci + 1
           called == [rt EXCEPT !.log = Append(@, <<"chunk", rt.attempt, k>>)]
       IN  \E o \in Outcomes :
              /\ budget' = Spend(o)
              /\ g' = [g EXCEPT !.multiGets = Append(@, Len(chunks[k]))]
              /\ IF o = "ok"
                 THEN LET got == [fr EXCEPT
                                     !.allParts = @ \o PartRowsIn(src, chunks[k]),
                                     !.ci = k]
                      IN  IF k < Len(chunks)
                          THEN fr' = got /\ rt' = called /\ pc' = pc
                          ELSE /\ rt' = [called EXCEPT !.pc = "returned"]
                               /\ IF Len(got.allParts) = 0
                                  THEN fr' = got /\ pc' = "p_ret"
                                  ELSE /\ fr' = [got EXCEPT !.pstats.partsFound =
                                                               Len(got.allParts)]
                                       /\ pc' = "p_destIntervals"
                 ELSE LET caught == RetryCaught(called)
                          r == IF caught.pc = "wait" THEN AfterWait(caught) ELSE caught
                      IN  /\ rt' = r
                          /\ IF r.pc = "thrown"
                             THEN fr' = PCountError(PAttemptStart(fr)) /\ pc' = "p_ret"
                             ELSE fr' = PAttemptStart(fr) /\ pc' = pc
    /\ UNCHANGED <<src, dest, file, flags, modelsToProcess, mi, progress>>

\* the numbers of source tasks tried: one chunk, a full chunk, two and three
FetchSizes == {1, 2, ChunkSize, ChunkSize + 1, 2 * ChunkSize, 2 * ChunkSize + 1}

\* Step 5 is entered with n source tasks of model A; every task has a part,
\* the first task has two, and one part belongs to a task that is not asked for
InitFetch ==
    /\ \E n \in FetchSizes :
          /\ src = [E2EStores.src EXCEPT
                       !.tasks = [i \in 1..n |->
                                    [id |-> i, interval_id |-> 1,
                                     description |-> "d1", type |-> "t1"]],
                       !.parts = [j \in 1..(n + 2) |->
                                    [id |-> j,
                                     task_id |-> IF j <= n THEN j
                                                 ELSE IF j = n + 1 THEN 1 ELSE n + 7,
                                     name |-> "n1"]]]
          /\ fr = PAttemptStart([FreshFrame EXCEPT !.sourceTasks = src.tasks])
    /\ dest = E2EStores.dest
    /\ file = NoFile
    /\ pc = "p_srcParts"
    /\ flags = [script |-> "parts", isDryRun |-> FALSE, shouldResume |-> FALSE,
                modelFilter |-> NoFilter, env |-> FullEnv]
    /\ modelsToProcess = MIGRATION_CONFIG_models
    /\ mi = 1
    /\ progress = FreshProgress(0)
    /\ budget = [failuresLeft |-> MaxBatchFailures, crashesLeft |-> 0, runsLeft |-> 0]
    /\ g = FreshGhost(dest)
    /\ rt = RetryEnter([RtIdle EXCEPT !.attempts = retryAttempts,
                                      !.delayMs = retryDelayMs,
                                      !.attempt = 1])

SpecFetch == InitFetch /\ [][PFetchChunk]_vars

\* the source parts of the tasks asked for
PartsAskedFor ==
    {j \in 1..Len(src.parts) : Includes(Ids(fr.sourceTasks), src.parts[j].task_id)}

(***************************************************************************)
(* C39.  The chunked fetch of source parts is retried as a whole: the rows  *)
(* in hand are those of the chunks the invocation in hand has fetched, so   *)
(* none comes from an invocation that failed; when the fetch returns, its   *)
(* result holds each source part of the tasks asked for once and no other   *)
(* row, and partsFound is the number of these parts.                        *)
(***************************************************************************)
C39_FetchRetriedAsAWhole ==
    /\ \A i, j \in 1..Len(fr.allParts) :
          fr.allParts[i].id = fr.allParts[j].id => i = j
    /\ rt.pc = "call"
       => Range(fr.allParts) =
             {src.parts[j] : j \in {x \in PartsAskedFor :
                                       src.parts[x].task_id <= fr.ci * ChunkSize}}
    /\ rt.pc = "returned"
       => /\ \A j \in PartsAskedFor :
                \E i \in 1..Len(fr.allParts) : fr.allParts[i] = src.parts[j]
          /\ \A i \in 1..Len(fr.allParts) :
                \E j \in PartsAskedFor : fr.allParts[i] = src.parts[j]
          /\ fr.pstats.partsFound = Cardinality(PartsAskedFor)
          /\ fr.pstats.errors = 0
    /\ rt.pc = "thrown" => fr.pstats.partsFound = 0 /\ fr.pstats.errors = 1

\* three chunks: the first invocation got the rows of the first chunk and
\* failed at the second; the second invocation has returned
C39_Witness ==
    /\ rt.pc = "returned" /\ rt.attempt = 2
    /\ Len(fr.sourceTasks) = 2 * ChunkSize + 1
    /\ g.multiGets = <<ChunkSize, ChunkSize, ChunkSize, ChunkSize, 1>>
    /\ fr.pstats.partsFound = 2 * ChunkSize + 2

====
